---- MODULE Spec2Model ----
(***************************************************************************)
(* Catty: executor (upload, connect, relay), metering proxy, control plane *)
(* and billing webhooks, modelled from the Go sources.                     *)
(*                                                                         *)
(* Strings whose content is inspected by the code (the Authorization       *)
(* header, archive entry names) are sequences: of characters for headers,  *)
(* of path components for paths.                                           *)
(***************************************************************************)
EXTENDS Integers, Sequences, FiniteSets, Bags, TLC

VARIABLES
    \* ---- executor server (internal/executor/relay.go, second file part)
    connectToken,     \* Server.connectToken, read from CONNECT_TOKEN
    workspaceReady,   \* Server.workspaceReady
    workspaceDir,     \* Server.workspaceDir: [empty, path], "" until an upload is marked
    sPty,             \* Server.pty: [started, workDir], nil until the first connect
    fs,               \* resolved paths created or written under handleUpload
    up,               \* bag of /upload requests: handler position, entries done, status
    lastReq           \* the latest request to arrive and what its first step did

VARIABLES run, p2w, w2p, c2s, s2c, cl, child, ptyOut, ptyIn, winsize, outAt

\* what each connection has been sent by the executor so far and the pty its
\* relay holds; the processes PTY.Start has started
VARIABLES wire, starts

relayVars == <<run, p2w, w2p, c2s, s2c, cl, child, ptyOut, ptyIn, winsize, outAt,
               wire, starts>>

execVars == <<connectToken, workspaceReady, workspaceDir, sPty, fs, up, lastReq>>

\* the relational store, the clock, the control plane, the metering proxy and
\* the webhook endpoint
VARIABLES sessions, subs, usage, clock, machines, lastApi, nCreate, px, lastPx, nReq, hook,
          hookResp

\* the control-frame codec at work on one message, and the client's terminal
VARIABLES ctl, term

\* the write side of one relay: who holds Relay.mu, where each sender is in
\* its send, and the frames written to the connection
VARIABLES mu, snd, sock

\* the request the proxy has let through its gates and the request the
\* reverse proxy sends upstream for it
VARIABLES fwd

\* the signal frames a relay has handled and the signals each process of the
\* child's process group has received
VARIABLES sigs

\* one streamed response body on its way through sseUsageReader: the bytes
\* of upstream, how many were read, the reader's buffer and counters
VARIABLES sse

\* the token cache of the control plane, its lock, its clock and the
\* requests that pass its middleware
VARIABLES authn

lockVars == <<mu, snd, sock>>
edgeVars == <<fwd, sigs, sse, authn>>
cliVars == <<ctl, term, lockVars, edgeVars>>

dbVars == <<sessions, subs, usage, clock>>
\* what the latest request gave the machine it created, the row it stored
\* and the client it answered
VARIABLES prov

apiVars == <<machines, lastApi, nCreate, prov>>
proxyVars == <<px, lastPx, nReq>>
billVars == <<hook, hookResp>>

\* what the actions of each part leave alone
execOthers == <<relayVars, dbVars, apiVars, proxyVars, billVars, cliVars>>
relayOthers == <<connectToken, workspaceReady, workspaceDir, fs, up, lastReq,
                 dbVars, apiVars, proxyVars, billVars, cliVars>>
proxyOthers == <<execVars, relayVars, apiVars, billVars, cliVars>>
apiOthers == <<execVars, relayVars, proxyVars, billVars, cliVars>>
billOthers == <<execVars, relayVars, apiVars, proxyVars, cliVars>>
codecOthers == <<execVars, relayVars, dbVars, apiVars, proxyVars, billVars, term, lockVars,
                 edgeVars>>
termOthers == <<execVars, relayVars, dbVars, apiVars, proxyVars, billVars, ctl, lockVars,
                edgeVars>>
lockOthers == <<execVars, relayVars, dbVars, apiVars, proxyVars, billVars, ctl, term,
                edgeVars>>
edgeOthers == <<execVars, relayVars, dbVars, apiVars, proxyVars, billVars, ctl, term,
                lockVars>>
fwdOthers == <<edgeOthers, sigs, sse, authn>>
sigsOthers == <<edgeOthers, fwd, sse, authn>>
sseOthers == <<edgeOthers, fwd, sigs, authn>>
authOthers == <<edgeOthers, fwd, sigs, sse>>

-----------------------------------------------------------------------------
(* Bounds of the model *)

MaxUploads == 2      \* concurrent or successive /upload requests
MaxEntries == 2      \* entries of an uploaded archive
MaxNameLen == 2      \* path components of an entry name

(* Program constants *)
MaxUploadSize == 104857600   \* 100 << 20

-----------------------------------------------------------------------------
(* Authorization headers, as character sequences *)

BearerUC == <<"B", "e", "a", "r", "e", "r">>
BearerLC == <<"b", "e", "a", "r", "e", "r">>
SP == " "

\* the token the control plane provisions, and a wrong one
Tok == <<"t", "k">>
BadTok == <<"t", "x">>

EnvTokens == {<<>>, Tok}

AuthHeaders ==
    { <<>>,                                  \* no header
      BearerUC \o <<SP>> \o Tok,             \* Bearer tk
      BearerLC \o <<SP>> \o Tok,             \* bearer tk
      BearerUC \o <<SP>> \o BadTok,          \* Bearer tx
      BearerUC \o <<SP, SP>> \o Tok,         \* Bearer  tk (two spaces)
      BearerUC \o <<SP>>,                    \* "Bearer " with an empty token
      <<"B", "E", "A", "R", "E", "R", SP>> \o Tok, \* BEARER tk
      Tok,                                   \* the bare token
      <<"B", "a", "s", "i", "c", SP>> \o Tok \* Basic tk
    }

ToLowerChar(c) ==
    CASE c = "B" -> "b"
      [] c = "E" -> "e"
      [] c = "A" -> "a"
      [] c = "R" -> "r"
      [] OTHER -> c

ToLower(s) == [i \in 1..Len(s) |-> ToLowerChar(s[i])]

\* index of the first space of s, 0 if none
FirstSpace(s) ==
    IF \E i \in 1..Len(s) : s[i] = SP
    THEN CHOOSE i \in 1..Len(s) : s[i] = SP /\ \A j \in 1..(i-1) : s[j] # SP
    ELSE 0

\* strings.SplitN(s, " ", 2)
SplitN2(s) ==
    LET i == FirstSpace(s)
    IN IF i = 0 THEN <<s>>
       ELSE <<SubSeq(s, 1, i-1), SubSeq(s, i+1, Len(s))>>

\* mutant: the scheme is checked, the token is not compared
ValidateTokenNoCompare(token, auth) ==
    IF token = <<>> THEN TRUE
    ELSE IF auth = <<>> THEN FALSE
    ELSE LET parts == SplitN2(auth)
         IN Len(parts) = 2 /\ ToLower(parts[1]) = BearerLC

\* Server.validateToken
ValidateToken(token, auth) ==
    IF token = <<>> THEN TRUE
    ELSE IF auth = <<>> THEN FALSE
    ELSE LET parts == SplitN2(auth)
         IN IF Len(parts) # 2 \/ ToLower(parts[1]) # BearerLC
            THEN FALSE
            ELSE parts[2] = token

-----------------------------------------------------------------------------
(* Paths, as sequences of components *)

Root == <<"workspace">>            \* WorkspaceDir = "/workspace"
FsRoot == <<>>                     \* "/"

Comps == {"..", "", "a", "b"}

RECURSIVE SeqsUpTo(_, _)
SeqsUpTo(S, n) ==
    IF n = 0 THEN {<<>>}
    ELSE LET shorter == SeqsUpTo(S, n-1)
         IN shorter \cup {Append(s, x) : s \in {t \in shorter : Len(t) = n-1}, x \in S}

EntryNames == SeqsUpTo(Comps, MaxNameLen) \ {<<>>}

Entries == [name : EntryNames, isDir : BOOLEAN]

\* path.Clean on a rooted path: drop "" and ".", resolve ".." lexically
RECURSIVE CleanFrom(_, _)
CleanFrom(acc, rest) ==
    IF rest = <<>> THEN acc
    ELSE LET c == Head(rest)
             acc2 == IF c = "" \/ c = "." THEN acc
                     ELSE IF c = ".."
                          THEN (IF acc = <<>> THEN acc ELSE SubSeq(acc, 1, Len(acc)-1))
                          ELSE Append(acc, c)
         IN CleanFrom(acc2, Tail(rest))

\* mutant: the joined path is not cleaned
JoinNoClean(dir, name) == dir \o name

\* filepath.Join(destDir, f.Name)
Join(dir, name) == CleanFrom(<<>>, dir \o name)

\* strings.HasPrefix(destPath, filepath.Clean(destDir) + "/")
HasRootPrefix(destPath, dir) ==
    LET d == CleanFrom(<<>>, dir)
    IN /\ Len(destPath) > Len(d)
       /\ SubSeq(destPath, 1, Len(d)) = d

\* where the kernel puts a path handed to open/mkdir (no symlinks exist in
\* the workspace: extraction creates none)
KernelResolve(p) == CleanFrom(<<>>, p)

\* all proper ancestors of p below or at the root directory, and p's parent chain
Ancestors(p) == {SubSeq(p, 1, k) : k \in 1..(Len(p)-1)}

Inside(p) == Len(p) >= Len(Root) /\ SubSeq(p, 1, Len(Root)) = Root

\* the entry name, taken relative to the root, names a place outside it
Escapes(name) == ~Inside(KernelResolve(Root \o name))

-----------------------------------------------------------------------------
(* Executor server: /upload and /connect *)

Methods == {"GET", "POST"}

\* what a request's Authorization header is, judged without the code:
\* "exact" = 'Bearer <token>', "ci" = the same with another spelling of the
\* scheme's case, "other" = anything else
UpperBearer == <<"B", "E", "A", "R", "E", "R">>

IsBearerCI(auth, token) ==
    /\ Len(auth) = 7 + Len(token)
    /\ \A i \in 1..6 : auth[i] \in {UpperBearer[i], BearerLC[i]}
    /\ auth[7] = SP
    /\ SubSeq(auth, 8, Len(auth)) = token

HeaderClass(auth, token) ==
    IF auth = BearerUC \o <<SP>> \o token THEN "exact"
    ELSE IF IsBearerCI(auth, token) THEN "ci"
    ELSE "other"

UploadSizes == {0, MaxUploadSize, MaxUploadSize + 1}

\* one /upload request: where its handler is, how many archive entries it
\* has extracted, the status it answered (0: none yet), and whether its
\* archive has presented an entry that names a place outside the root; lost
\* tells whether extractZip has dropped an error of the OS for it
Upload(pc, idx, resp, slip) ==
    [pc |-> pc, idx |-> idx, resp |-> resp, slip |-> slip, lost |-> FALSE]

\* the request with its dropped errors kept
Lossy(u, lost) == [u EXCEPT !.lost = lost]

\* the bag of requests after request r has become r2
Move(r, r2) == (up (-) SetToBag({r})) (+) SetToBag({r2})

InFlight(pc) == {r \in BagToSet(up) : r.pc = pc}

\* the Go zero values of Server.workspaceDir and Server.pty
EmptyDir == [empty |-> TRUE, path |-> <<>>]
NilPty == [started |-> FALSE, workDir |-> <<>>]

NoReq ==
    [ep |-> "none", cls |-> "none", post |-> FALSE, resp |-> 0,
     accepted |-> FALSE, created |-> FALSE]

InitExec ==
    /\ connectToken \in EnvTokens
    /\ workspaceReady = FALSE
    /\ workspaceDir = EmptyDir
    /\ sPty = NilPty
    /\ fs = {}
    /\ up = EmptyBag
    /\ lastReq = NoReq

\* mutant: the already-uploaded check is missing
UploadGateNoReadyCheck(method, authOk, ready) ==
    IF method # "POST" THEN 405
    ELSE IF ~authOk THEN 401
    ELSE 0

\* handleUpload, method check to already-uploaded check: the status it
\* answers, or 0 to go on
UploadGate(method, authOk, ready) ==
    IF method # "POST" THEN 405
    ELSE IF ~authOk THEN 401
    ELSE IF ready THEN 409
    ELSE 0

\* handleUpload up to the already-uploaded check
UploadArrive(method, auth) ==
    /\ BagCardinality(up) < MaxUploads
    /\ LET authOk == ValidateToken(connectToken, auth)
           st == UploadGate(method, authOk, workspaceReady)
       IN /\ up' = up (+) SetToBag({Upload(IF st = 0 THEN "receive" ELSE "done", 0, st, FALSE)})
          /\ lastReq' = [ep |-> "upload",
                         cls |-> HeaderClass(auth, connectToken),
                         post |-> (method = "POST"),
                         resp |-> st,
                         accepted |-> FALSE,
                         created |-> FALSE]
    /\ UNCHANGED <<connectToken, workspaceReady, workspaceDir, sPty, fs>>
    /\ UNCHANGED execOthers

\* handleUpload: size limit, workspace directory, temp file, copy of the body
UploadReceive(r, size, ioOk) ==
    /\ r \in InFlight("receive")
    /\ IF ~ioOk
       THEN \* MkdirAll or CreateTemp failed: 500
            /\ up' = Move(r, Upload("done", 0, 500, FALSE))
            /\ UNCHANGED fs
       ELSE /\ fs' = fs \cup {Root}
            /\ IF size > MaxUploadSize
               THEN up' = Move(r, Upload("done", 0, 500, FALSE))
               ELSE up' = Move(r, Upload("extract", 0, 0, FALSE))
    /\ UNCHANGED <<connectToken, workspaceReady, workspaceDir, sPty, lastReq>>
    /\ UNCHANGED execOthers

\* extractZip: zip.OpenReader fails on a corrupt archive
UploadOpenFail(r) ==
    /\ r \in InFlight("extract")
    /\ r.idx = 0
    /\ up' = Move(r, Upload("done", 0, 500, FALSE))
    /\ UNCHANGED <<connectToken, workspaceReady, workspaceDir, sPty, fs, lastReq>>
    /\ UNCHANGED execOthers

\* the paths one loop iteration of extractZip touches for an entry, given the
\* joined path; "fail" is the step at which the OS reports an error
\* ("none", "mkdir", "open", "copy")
EntryWrites(destPath, isDir, fail) ==
    LET target == KernelResolve(destPath)
        parents == {KernelResolve(q) : q \in Ancestors(destPath)}
    IN IF isDir THEN (IF fail = "mkdir" THEN {} ELSE parents \cup {target})
       ELSE IF fail = "mkdir" THEN {}
       ELSE IF fail = "open" THEN parents
       ELSE parents \cup {target}

\* extractZip: one iteration of the loop over r.File
UploadExtractEntry(r, e, fail) ==
    /\ r \in InFlight("extract")
    /\ r.idx < MaxEntries
    /\ LET destPath == Join(Root, e.name)
       IN IF ~HasRootPrefix(destPath, Root)
          THEN \* invalid file path: the whole extraction aborts
               /\ up' = Move(r, Lossy(Upload("done", 0, 500, Escapes(e.name)), r.lost))
               /\ UNCHANGED fs
          ELSE /\ fs' = fs \cup EntryWrites(destPath, e.isDir, fail)
               /\ IF e.isDir \/ fail = "none"
                  THEN up' = Move(r, Lossy(Upload("extract", r.idx + 1, 0, Escapes(e.name)),
                                           r.lost \/ fail # "none"))
                  ELSE up' = Move(r, Lossy(Upload("done", 0, 500, Escapes(e.name)), r.lost))
    /\ UNCHANGED <<connectToken, workspaceReady, workspaceDir, sPty, lastReq>>
    /\ UNCHANGED execOthers

\* extractZip returns nil after the last entry
UploadExtractEnd(r) ==
    /\ r \in InFlight("extract")
    /\ up' = Move(r, Lossy(Upload("mark", 0, 0, FALSE), r.lost))
    /\ UNCHANGED <<connectToken, workspaceReady, workspaceDir, sPty, fs, lastReq>>
    /\ UNCHANGED execOthers

\* handleUpload: mark workspace as ready, answer 200
UploadMark(r) ==
    /\ r \in InFlight("mark")
    /\ workspaceReady' = TRUE
    /\ workspaceDir' = [empty |-> FALSE, path |-> Root]
    /\ up' = Move(r, Lossy(Upload("done", 0, 200, FALSE), r.lost))
    /\ UNCHANGED <<connectToken, sPty, fs, lastReq>>
    /\ UNCHANGED execOthers

\* getOrCreatePTY with the working directory left at its default
WorkDirDefault(ready, dir) == FsRoot

\* Server.getOrCreatePTY: the working directory of a new pty
WorkDirFor(ready, dir) == IF ready /\ ~dir.empty THEN dir.path ELSE FsRoot

\* handleConnect up to the start of the relay
HandleConnect(auth, acceptOk, startOk) ==
    LET authOk == ValidateToken(connectToken, auth)
        accepted == authOk /\ acceptOk
        created == accepted /\ ~sPty.started /\ startOk
        st == IF ~authOk THEN 401
              ELSE IF ~acceptOk THEN 400
              ELSE IF sPty.started \/ startOk THEN 101
              ELSE 1011   \* pty.Start failed: the accepted connection is closed
    IN
    /\ sPty' = IF created
               THEN [started |-> TRUE, workDir |-> WorkDirFor(workspaceReady, workspaceDir)]
               ELSE sPty
    /\ lastReq' = [ep |-> "connect",
                   cls |-> HeaderClass(auth, connectToken),
                   post |-> FALSE,
                   resp |-> st,
                   accepted |-> accepted,
                   created |-> created]
    /\ UNCHANGED <<connectToken, workspaceReady, workspaceDir, fs, up>>
    /\ UNCHANGED execOthers

\* the OS error points of one loop iteration: a directory entry ignores the
\* result of MkdirAll
FailPoints(e) == IF e.isDir THEN {"none", "mkdir"} ELSE {"none", "mkdir", "open", "copy"}

\* archive entries of the request-level specification: one inside the root,
\* one escaping it
ExecEntries == {e \in Entries : e.name \in {<<"a">>, <<"..", "a">>}}

NextExec ==
    \/ \E m \in Methods, a \in AuthHeaders : UploadArrive(m, a)
    \/ \E r \in BagToSet(up), sz \in UploadSizes, ok \in BOOLEAN : UploadReceive(r, sz, ok)
    \/ \E r \in BagToSet(up) : UploadOpenFail(r)
    \/ \E r \in BagToSet(up), e \in ExecEntries : \E f \in FailPoints(e) :
          UploadExtractEntry(r, e, f)
    \/ \E r \in BagToSet(up) : UploadExtractEnd(r)
    \/ \E r \in BagToSet(up) : UploadMark(r)
    \/ \E a \in AuthHeaders, acc \in BOOLEAN, st \in BOOLEAN : HandleConnect(a, acc, st)

\* one upload, every archive within the bounds
NextExtract ==
    \/ \E m \in Methods, a \in AuthHeaders : up = EmptyBag /\ UploadArrive(m, a)
    \/ \E r \in BagToSet(up), sz \in UploadSizes, ok \in BOOLEAN : UploadReceive(r, sz, ok)
    \/ \E r \in BagToSet(up) : UploadOpenFail(r)
    \/ \E r \in BagToSet(up), e \in Entries : \E f \in FailPoints(e) :
          UploadExtractEntry(r, e, f)
    \/ \E r \in BagToSet(up) : UploadExtractEnd(r)
    \/ \E r \in BagToSet(up) : UploadMark(r)

-----------------------------------------------------------------------------
(* The relay between one websocket connection and the pty, and the client
   at the other end of the connection *)

\* the connections an executor accepts, in the order they arrive
Conns == {1, 2}

\* the first of them
FirstConn == {1}

MaxIn == 2       \* bytes a client reads from its stdin
MaxOut == 2      \* bytes the child writes to the pty
MaxCtl == 1      \* resize frames a client sends
MaxPings == 3    \* pings a relay sends

ExitCodes == {0, 1}

\* frames on the websocket
BinFrame(data) == [kind |-> "bin", msg |-> "", data |-> data]
TxtFrame(msg, data) == [kind |-> "txt", msg |-> msg, data |-> data]

\* the bytes i+1 .. i+n of a stream whose k-th byte is k
Bytes(i, n) == [k \in 1..n |-> i + k]

\* the JSON text of a resize message, as bytes that are no stdin byte
ResizeJSON == <<0>>

NoClient == [nSent |-> 0, ctl |-> 0, stdout |-> <<>>, gotExit |-> FALSE, closed |-> FALSE]
P2W(pc, buf) == [pc |-> pc, buf |-> buf]
NoChild == [exited |-> FALSE, code |-> 0, nOut |-> 0]

\* nothing sent yet on a connection, no pty held; late tells that the
\* connect was made after the child's exit
NoSent == [first |-> "", ready |-> 0, exit |-> FALSE, pings |-> 0, pty |-> 0,
           late |-> FALSE]

\* conn.Write of one frame: the record of the connection after it
Sent(s, f) ==
    [s EXCEPT !.first = IF @ # "" THEN @ ELSE IF f.kind = "bin" THEN "bin" ELSE f.msg,
              !.ready = IF f.msg = "ready" THEN @ + 1 ELSE @,
              !.exit = @ \/ f.msg = "exit",
              !.pings = IF f.msg = "ping" THEN @ + 1 ELSE @]

InitRelay ==
    /\ run = [c \in Conns |-> "none"]
    /\ p2w = [c \in Conns |-> P2W("off", <<>>)]
    /\ w2p = [c \in Conns |-> "off"]
    /\ c2s = [c \in Conns |-> <<>>]
    /\ s2c = [c \in Conns |-> <<>>]
    /\ cl = [c \in Conns |-> NoClient]
    /\ child = NoChild
    /\ ptyOut = <<>>
    /\ ptyIn = <<>>
    /\ winsize = <<>>
    /\ outAt = [c \in Conns |-> 0]
    /\ wire = [c \in Conns |-> NoSent]
    /\ starts = 0

\* the connection carries frames: neither end has closed it
Open(c) == run[c] \in {"start", "select", "exit"} /\ ~cl[c].closed

\* Run has returned: its deferred cancel has run and handleConnect has closed
\* the connection
Cancelled(c) == run[c] = "done"

\* relayWSToPTY with no frame-type switch
PtyBytesAnyFrame(f) == f.data

\* relayWSToPTY: what a received frame makes it write to the pty
PtyBytes(f) == IF f.kind = "bin" THEN f.data ELSE <<>>

Tagged(c, data) == [k \in 1..Len(data) |-> <<c, data[k]>>]

\* getOrCreatePTY creating a pty on every call
NeverMemoized(p) == FALSE

\* getOrCreatePTY: s.pty != nil
Memoized(p) == p.started

\* handleConnect after the token check: Accept, getOrCreatePTY, NewRelay
RelayStart(c) ==
    /\ run[c] = "none"
    /\ run' = [run EXCEPT ![c] = "start"]
    /\ IF Memoized(sPty)
       THEN UNCHANGED <<sPty, starts, child, ptyOut, ptyIn, winsize>>
       ELSE /\ sPty' = [started |-> TRUE,
                        workDir |-> WorkDirFor(workspaceReady, workspaceDir)]
            /\ starts' = starts + 1      \* NewPTY, PTY.Start: a new process
            /\ child' = NoChild
            /\ ptyOut' = <<>>
            /\ ptyIn' = <<>>
            /\ winsize' = <<>>
    /\ wire' = [wire EXCEPT ![c].pty = starts', ![c].late = child.exited]
    /\ UNCHANGED <<p2w, w2p, c2s, s2c, cl, outAt>>
    /\ UNCHANGED relayOthers

\* handleConnect: PTY.Start fails, the accepted connection is closed with an
\* internal error and Server.pty stays nil
RelayStartFail(c) ==
    /\ run[c] = "none"
    /\ ~Memoized(sPty)
    /\ run' = [run EXCEPT ![c] = "done"]
    /\ UNCHANGED <<sPty, p2w, w2p, c2s, s2c, cl, child, ptyOut, ptyIn, winsize, outAt, wire, starts>>
    /\ UNCHANGED relayOthers

\* a ping put in the place of the ready message
NewPingForReady == TxtFrame("ping", <<>>)

\* sendControl(protocol.NewReadyMessage())
ReadyFrame == TxtFrame("ready", <<>>)

\* Relay.Run: send ready, start the goroutines
RunReady(c) ==
    /\ run[c] = "start"
    /\ IF Open(c)
       THEN /\ s2c' = [s2c EXCEPT ![c] = Append(@, ReadyFrame)]
            /\ wire' = [wire EXCEPT ![c] = Sent(@, ReadyFrame)]
            /\ run' = [run EXCEPT ![c] = "select"]
            /\ p2w' = [p2w EXCEPT ![c] = P2W("head", <<>>)]
            /\ w2p' = [w2p EXCEPT ![c] = "on"]
            /\ outAt' = [outAt EXCEPT ![c] = child.nOut]
       ELSE /\ run' = [run EXCEPT ![c] = "done"]
            /\ UNCHANGED <<s2c, wire, p2w, w2p, outAt>>
    /\ UNCHANGED <<sPty, c2s, cl, child, ptyOut, ptyIn, winsize, starts>>
    /\ UNCHANGED relayOthers

\* Relay.Run: the select takes the ExitCh case and sends the exit frame
RunExit(c) ==
    /\ run[c] = "select"
    /\ child.exited
    /\ s2c' = IF Open(c)
              THEN [s2c EXCEPT ![c] = Append(@, TxtFrame("exit", <<child.code>>))]
              ELSE s2c
    /\ wire' = IF Open(c)
               THEN [wire EXCEPT ![c] = Sent(@, TxtFrame("exit", <<child.code>>))]
               ELSE wire
    /\ run' = [run EXCEPT ![c] = "exit"]
    /\ UNCHANGED <<sPty, p2w, w2p, c2s, cl, child, ptyOut, ptyIn, winsize, outAt, starts>>
    /\ UNCHANGED relayOthers

\* Relay.Run: the select takes the errCh case
RunErr(c) ==
    /\ run[c] = "select"
    /\ p2w[c].pc = "stop" \/ w2p[c] = "stop"
    /\ run' = [run EXCEPT ![c] = "done"]
    /\ UNCHANGED <<sPty, p2w, w2p, c2s, s2c, cl, child, ptyOut, ptyIn, winsize, outAt, wire, starts>>
    /\ UNCHANGED relayOthers

\* Relay.Run returns after the exit frame; handleConnect closes the connection
RunReturn(c) ==
    /\ run[c] = "exit"
    /\ run' = [run EXCEPT ![c] = "done"]
    /\ UNCHANGED <<sPty, p2w, w2p, c2s, s2c, cl, child, ptyOut, ptyIn, winsize, outAt, wire, starts>>
    /\ UNCHANGED relayOthers

\* Relay.pingLoop: the ticker fires, a ping is sent; at most max pings
PingLoop(c, max) ==
    /\ run[c] \in {"select", "exit"}
    /\ Open(c)
    /\ wire[c].pings < max
    /\ s2c' = [s2c EXCEPT ![c] = Append(@, TxtFrame("ping", <<>>))]
    /\ wire' = [wire EXCEPT ![c] = Sent(@, TxtFrame("ping", <<>>))]
    /\ UNCHANGED <<sPty, run, p2w, w2p, c2s, cl, child, ptyOut, ptyIn, winsize, outAt, starts>>
    /\ UNCHANGED relayOthers

\* Relay.pingLoop: the ticker fires for the first time
RunPing(c) == PingLoop(c, 1)

\* Relay.pingLoop: the ticker fires, every pingInterval
RunPings(c) == PingLoop(c, MaxPings)

\* relayPTYToWS: pty.Read returns what the pty holds
P2WRead(c) ==
    /\ p2w[c].pc = "read"
    /\ ptyOut # <<>>
    /\ p2w' = [p2w EXCEPT ![c] = P2W("send", ptyOut)]
    /\ ptyOut' = <<>>
    /\ UNCHANGED <<sPty, run, w2p, c2s, s2c, cl, child, ptyIn, winsize, outAt, wire, starts>>
    /\ UNCHANGED relayOthers

\* relayPTYToWS: pty.Read fails once the child is gone and the pty is drained
P2WEof(c) ==
    /\ p2w[c].pc = "read"
    /\ ptyOut = <<>>
    /\ child.exited
    /\ p2w' = [p2w EXCEPT ![c] = P2W("stop", <<>>)]
    /\ UNCHANGED <<sPty, run, w2p, c2s, s2c, cl, child, ptyOut, ptyIn, winsize, outAt, wire, starts>>
    /\ UNCHANGED relayOthers

\* relayPTYToWS: the loop head finds the context live and calls pty.Read,
\* which returns only with bytes or an error
P2WLoop(c) ==
    /\ p2w[c].pc = "head"
    /\ ~Cancelled(c)
    /\ p2w' = [p2w EXCEPT ![c] = P2W("read", <<>>)]
    /\ UNCHANGED <<sPty, run, w2p, c2s, s2c, cl, child, ptyOut, ptyIn, winsize, outAt, wire, starts>>
    /\ UNCHANGED relayOthers

\* relayPTYToWS: the loop head sees the cancelled context
P2WCancel(c) ==
    /\ p2w[c].pc = "head"
    /\ Cancelled(c)
    /\ p2w' = [p2w EXCEPT ![c] = P2W("stop", <<>>)]
    /\ UNCHANGED <<sPty, run, w2p, c2s, s2c, cl, child, ptyOut, ptyIn, winsize, outAt, wire, starts>>
    /\ UNCHANGED relayOthers

\* relayPTYToWS: sendBinary of the chunk just read
P2WSend(c) ==
    /\ p2w[c].pc = "send"
    /\ IF Open(c)
       THEN /\ s2c' = [s2c EXCEPT ![c] = Append(@, BinFrame(p2w[c].buf))]
            /\ wire' = [wire EXCEPT ![c] = Sent(@, BinFrame(p2w[c].buf))]
            /\ p2w' = [p2w EXCEPT ![c] = P2W("head", <<>>)]
       ELSE /\ p2w' = [p2w EXCEPT ![c] = P2W("stop", <<>>)]
            /\ UNCHANGED <<s2c, wire>>
    /\ UNCHANGED <<sPty, run, w2p, c2s, cl, child, ptyOut, ptyIn, winsize, outAt, starts>>
    /\ UNCHANGED relayOthers

\* relayWSToPTY: one frame read from the connection and handled
W2PStep(c) ==
    /\ w2p[c] = "on"
    /\ Open(c)
    /\ c2s[c] # <<>>
    /\ LET f == Head(c2s[c])
           data == PtyBytes(f)
       IN
       /\ c2s' = [c2s EXCEPT ![c] = Tail(@)]
       /\ IF data # <<>> /\ child.exited
          THEN /\ w2p' = [w2p EXCEPT ![c] = "stop"]     \* pty.Write fails
               /\ UNCHANGED <<ptyIn, winsize>>
          ELSE /\ ptyIn' = ptyIn \o Tagged(c, data)
               /\ winsize' = IF f.kind = "txt" /\ f.msg = "resize" /\ ~child.exited
                             THEN f.data ELSE winsize
               /\ UNCHANGED w2p
    /\ UNCHANGED <<sPty, run, p2w, s2c, cl, child, ptyOut, outAt, wire, starts>>
    /\ UNCHANGED relayOthers

\* relayWSToPTY: conn.Read fails on a closed connection or a cancelled context
W2PStop(c) ==
    /\ w2p[c] = "on"
    /\ ~Open(c)
    /\ w2p' = [w2p EXCEPT ![c] = "stop"]
    /\ UNCHANGED <<sPty, run, p2w, c2s, s2c, cl, child, ptyOut, ptyIn, winsize, outAt, wire, starts>>
    /\ UNCHANGED relayOthers

\* the client connected to c can still write to it
ClientUp(c) == run[c] \notin {"none", "done"} /\ ~cl[c].closed

\* cli connect: n bytes read from stdin and sent as one binary frame
ClientSend(c, n) ==
    /\ ClientUp(c)
    /\ n \in 1..(MaxIn - cl[c].nSent)
    /\ c2s' = [c2s EXCEPT ![c] = Append(@, BinFrame(Bytes(cl[c].nSent, n)))]
    /\ cl' = [cl EXCEPT ![c].nSent = @ + n]
    /\ UNCHANGED <<sPty, run, p2w, w2p, s2c, child, ptyOut, ptyIn, winsize, outAt, wire, starts>>
    /\ UNCHANGED relayOthers

\* cli sendResize
ClientResize(c) ==
    /\ ClientUp(c)
    /\ cl[c].ctl < MaxCtl
    /\ c2s' = [c2s EXCEPT ![c] = Append(@, TxtFrame("resize", ResizeJSON))]
    /\ cl' = [cl EXCEPT ![c].ctl = @ + 1]
    /\ UNCHANGED <<sPty, run, p2w, w2p, s2c, child, ptyOut, ptyIn, winsize, outAt, wire, starts>>
    /\ UNCHANGED relayOthers

\* cli connect: one frame read from the connection
ClientRecv(c) ==
    /\ ~cl[c].closed
    /\ s2c[c] # <<>>
    /\ LET f == Head(s2c[c]) IN
       /\ s2c' = [s2c EXCEPT ![c] = Tail(@)]
       /\ cl' = [cl EXCEPT ![c] =
                   IF f.kind = "bin" THEN [@ EXCEPT !.stdout = @ \o f.data]
                   ELSE IF f.msg = "exit" THEN [@ EXCEPT !.gotExit = TRUE, !.closed = TRUE]
                   ELSE @]
       /\ c2s' = IF f.kind = "txt" /\ f.msg = "ping"      \* sendPong
                 THEN [c2s EXCEPT ![c] = Append(@, TxtFrame("pong", <<>>))]
                 ELSE c2s
    /\ UNCHANGED <<sPty, run, p2w, w2p, child, ptyOut, ptyIn, winsize, outAt, wire, starts>>
    /\ UNCHANGED relayOthers

\* the client goes away: stdin error, read error, lost network
ClientDrop(c) ==
    /\ ClientUp(c)
    /\ cl' = [cl EXCEPT ![c].closed = TRUE]
    /\ UNCHANGED <<sPty, run, p2w, w2p, c2s, s2c, child, ptyOut, ptyIn, winsize, outAt, wire, starts>>
    /\ UNCHANGED relayOthers

\* the child writes one byte to its terminal
ChildOutput ==
    /\ sPty.started
    /\ ~child.exited
    /\ child.nOut < MaxOut
    /\ ptyOut' = Append(ptyOut, child.nOut + 1)
    /\ child' = [child EXCEPT !.nOut = @ + 1]
    /\ UNCHANGED <<sPty, run, p2w, w2p, c2s, s2c, cl, ptyIn, winsize, outAt, wire, starts>>
    /\ UNCHANGED relayOthers

\* PTY.wait: the child exits, exitCode is stored and exitCh closed
ChildExit(code) ==
    /\ sPty.started
    /\ ~child.exited
    /\ child' = [child EXCEPT !.exited = TRUE, !.code = code]
    /\ UNCHANGED <<sPty, run, p2w, w2p, c2s, s2c, cl, ptyOut, ptyIn, winsize, outAt, wire, starts>>
    /\ UNCHANGED relayOthers

\* Relay.Run, the keep-alive of the connection by its two ends, and the child
RelayControl ==
    \/ \E c \in FirstConn : RelayStart(c)
    \/ \E c \in Conns : RunReady(c)
    \/ \E c \in Conns : RunExit(c)
    \/ \E c \in Conns : RunErr(c)
    \/ \E c \in Conns : RunReturn(c)
    \/ \E c \in Conns : P2WEof(c)
    \/ \E c \in Conns : P2WLoop(c)
    \/ \E c \in Conns : P2WCancel(c)
    \/ \E c \in Conns : W2PStop(c)
    \/ \E c \in Conns : ClientRecv(c)
    \/ \E c \in Conns : ClientDrop(c)
    \/ \E code \in ExitCodes : ChildExit(code)

\* the direction client -> pty
NextRelayIn ==
    \/ RelayControl
    \/ \E c \in Conns : W2PStep(c)
    \/ \E c \in Conns, n \in 1..MaxIn : ClientSend(c, n)
    \/ \E c \in Conns : ClientResize(c)

\* the direction pty -> client
NextRelayOut ==
    \/ RelayControl
    \/ \E c \in Conns : P2WRead(c)
    \/ \E c \in Conns : P2WSend(c)
    \/ ChildOutput

\* the keepalive of one relay: its pings every interval, a client that
\* answers them or is silent, and the ways the relay ends
NextKeepalive ==
    \/ \E c \in FirstConn : RelayStart(c)
    \/ \E c \in Conns : RunReady(c)
    \/ \E c \in Conns : RunPings(c)
    \/ \E c \in Conns : RunExit(c)
    \/ \E c \in Conns : RunErr(c)
    \/ \E c \in Conns : RunReturn(c)
    \/ \E c \in Conns : W2PStep(c)
    \/ \E c \in Conns : W2PStop(c)
    \/ \E c \in Conns : ClientRecv(c)
    \/ \E c \in Conns : ClientResize(c)
    \/ \E c \in Conns : ClientDrop(c)
    \/ \E code \in ExitCodes : ChildExit(code)

\* a client connects again after the relay of the connection before has ended
Reconnect(c) ==
    /\ run[c - 1] = "done"
    /\ RelayStart(c)

\* connects and reconnects on one executor, seen from the executor: its
\* relays, their pings and the output of the child; a client connects and
\* goes away, and what it was sent stays in s2c
NextReconnect ==
    \/ \E c \in FirstConn : RelayStart(c)
    \/ \E c \in Conns \ FirstConn : Reconnect(c)
    \/ \E c \in Conns : RelayStartFail(c)
    \/ \E c \in Conns : RunReady(c)
    \/ \E c \in Conns : RunPing(c)
    \/ \E c \in Conns : RunExit(c)
    \/ \E c \in Conns : RunErr(c)
    \/ \E c \in Conns : RunReturn(c)
    \/ \E c \in Conns : P2WRead(c)
    \/ \E c \in Conns : P2WSend(c)
    \/ \E c \in Conns : P2WEof(c)
    \/ \E c \in Conns : P2WLoop(c)
    \/ \E c \in Conns : P2WCancel(c)
    \/ \E c \in Conns : W2PStop(c)
    \/ \E c \in Conns : ClientDrop(c)
    \/ \E code \in ExitCodes : ChildExit(code)
    \/ ChildOutput

-----------------------------------------------------------------------------
(* The relational store and the quota predicate *)

MaxClock == 2     \* instants the clock runs through
MonthLen == 2     \* instants in a calendar month

FreeTierMonthlyTokens == 1000000

Users == {"ua", "ub"}
Labels == {"l1", "l2"}
Customers == {"cus_a", "cus_x"}

\* a nullable column
Null == <<>>
Some(v) == <<v>>

SessionRow(id, user, machine, label, status, ended) ==
    [id |-> id, user |-> user, machine |-> machine, label |-> label,
     status |-> status, ended |-> ended]

SubRow(plan, cust, sid, ps, pe) ==
    [plan |-> plan, cust |-> cust, sid |-> sid, ps |-> ps, pe |-> pe]

\* a usage row; req stands for the row's own id: the proxied request that
\* inserted it
UsageRow(user, session, inp, out, at, req) ==
    [user |-> user, session |-> session, inp |-> inp, out |-> out, at |-> at,
     req |-> req]

NoSub == [plan |-> "none", cust |-> Null, sid |-> Null, ps |-> Null, pe |-> Null]

\* INSERT INTO subscriptions (user_id, plan) VALUES ($1, 'free')
FreeSub == SubRow("free", Null, Null, Null, Null)

\* GetOrCreateSubscription: the table after the call
WithSubscription(tbl, u) == IF tbl[u] = NoSub THEN [tbl EXCEPT ![u] = FreeSub] ELSE tbl

\* date_trunc('month', NOW())
MonthStart(now) == now - (now % MonthLen)

RECURSIVE SumRows(_, _, _)
\* the sum of one column over the rows of a set, each counted as often as the
\* table holds it
SumRows(tbl, rows, col) ==
    IF rows = {} THEN 0
    ELSE LET r == CHOOSE x \in rows : TRUE
         IN CopiesIn(r, tbl) * (IF col = "inp" THEN r.inp ELSE r.out)
            + SumRows(tbl, rows \ {r}, col)

\* GetMonthlyUsage: input and output tokens of the user's rows of this month
GetMonthlyUsage(tbl, u, now) ==
    LET rows == {r \in BagToSet(tbl) : r.user = u /\ r.at >= MonthStart(now)}
    IN [inp |-> SumRows(tbl, rows, "inp"), out |-> SumRows(tbl, rows, "out")]

\* CheckQuota after the subscription and the usage have been read
CheckQuota(plan, totalUsed) ==
    IF plan = "pro" THEN [allowed |-> TRUE, remaining |-> -1]
    ELSE LET remaining == FreeTierMonthlyTokens - totalUsed
         IN IF remaining <= 0 THEN [allowed |-> FALSE, remaining |-> 0]
            ELSE [allowed |-> TRUE, remaining |-> remaining]

\* time passes
Tick ==
    /\ clock < MaxClock
    /\ clock' = clock + 1
    /\ UNCHANGED <<sessions, subs, usage, execVars, relayVars, apiVars, proxyVars, billVars,
                   cliVars>>

-----------------------------------------------------------------------------
(* The metering proxy *)

MaxReqs == 2      \* requests the proxy serves
MaxEvents == 2    \* events of a streamed response

Tokens == {0, 1, FreeTierMonthlyTokens - 1}

SseEvents ==
    [type : {"message_start", "message_delta"}, n : Tokens] \cup {[type |-> "ping", n |-> 0]}

\* a unary response body: whether it parses as JSON, and its usage object
NoBody == [ok |-> FALSE, inp |-> 0, out |-> 0]
UnaryBodies == [ok : {TRUE}, inp : Tokens, out : Tokens] \cup {NoBody}

\* the bytes of a unary body, as upstream sends them
Text(b) == IF b.ok THEN <<"{", "usage", b.inp, b.out, "}">> ELSE <<"<html>">>

\* json.Unmarshal of a body into the usage struct of modifyResponse
UnmarshalUsage(raw) ==
    IF Len(raw) = 5 /\ raw[1] = "{" /\ raw[5] = "}"
    THEN [ok |-> TRUE, inp |-> raw[3], out |-> raw[4]]
    ELSE NoBody

\* modifyResponse leaving the body it has read to its end
Consumed(raw) == <<>>

\* modifyResponse: resp.Body = io.NopCloser(bytes.NewReader(body))
RestoreBody(raw) == raw

\* a failed RecordUsage returned to the reverse proxy, which answers 502
RecordFailedBadGateway(p) ==
    [p EXCEPT !.dbFail = TRUE, !.status = 502, !.served = <<>>, !.clen = 0]

\* a failed RecordUsage: logger.Error, nothing else
RecordFailed(p) == [p EXCEPT !.dbFail = TRUE]

\* a URL path is a sequence of "/" and of the segments between
Slashed(segs) == [i \in 1..(2 * Len(segs)) |-> IF i % 2 = 1 THEN "/" ELSE segs[i \div 2]]

\* the paths a caller can ask for
ReqPaths ==
    {Slashed(<<"s", l, "v1", e>>) : l \in {"l1", "l2", "l9"}, e \in {"messages", "models"}}
    \cup {Slashed(<<"s", "l1">>), Slashed(<<"x", "l1", "v1", "messages">>),
          <<"/", "s", "/", "/", "v1", "/", "messages">>}

\* index of the first "/" of s, 0 if none
FirstSlash(s) ==
    IF \E i \in 1..Len(s) : s[i] = "/"
    THEN CHOOSE i \in 1..Len(s) : s[i] = "/" /\ \A j \in 1..(i-1) : s[j] # "/"
    ELSE 0

BadPath == [ok |-> FALSE, label |-> "", api |-> <<>>]

\* ServeHTTP taking the second segment of any path for the label
ParsePathAnyPrefix(path) ==
    IF Len(path) < 5 THEN BadPath
    ELSE [ok |-> TRUE, label |-> path[4], api |-> SubSeq(path, 5, Len(path))]

\* ServeHTTP: strings.HasPrefix(path, "/s/"), strings.TrimPrefix,
\* strings.SplitN(rest, "/", 2); the label is parts[0], the upstream path
\* "/" + parts[1]
ParsePath(path) ==
    IF Len(path) < 3 \/ SubSeq(path, 1, 3) # <<"/", "s", "/">> THEN BadPath
    ELSE LET rest == SubSeq(path, 4, Len(path))
             i == FirstSlash(rest)
         IN IF i = 0 THEN BadPath
            ELSE [ok |-> TRUE,
                  label |-> IF i = 1 THEN "" ELSE rest[1],
                  api |-> <<"/">> \o SubSeq(rest, i + 1, Len(rest))]

\* modifyResponse: strings.Contains(resp.Request.URL.Path, "/messages")
IsMessages(api) == \E i \in 1..(Len(api) - 1) : api[i] = "/" /\ api[i + 1] = "messages"

\* the path of a messages request of the session labelled l
MessagesPath(l) == Slashed(<<"s", l, "v1", "messages">>)
UpstreamStatuses == {200, 500}

NoSess == SessionRow("", "", "", "", "", Null)

NoPx ==
    [pc |-> "idle", n |-> 0, label |-> "", msgs |-> FALSE, sess |-> NoSess, status |-> 0,
     ustatus |-> 0, kind |-> "", nEv |-> 0, seen |-> NoBody, body |-> NoBody,
     inTok |-> 0, outTok |-> 0, eof |-> FALSE, dbFail |-> FALSE, lastDelta |-> -1,
     path |-> <<>>, did |-> <<>>, up |-> <<>>, served |-> <<>>, clen |-> 0, tries |-> 0]

NoQuota == [checked |-> FALSE, user |-> "", plan |-> "", total |-> 0, allowed |-> FALSE]

\* GetSessionByLabelAnyUser: the rows with the label, whoever owns them
GetSessionByLabelAnyUser(label) == {r \in sessions : r.label = label}

\* the proxy answers without forwarding
Answered(p, st) == [p EXCEPT !.pc = "done", !.status = st]

\* ServeHTTP up to the hand-over to the reverse proxy
ProxyServe(path, dbOk) ==
    /\ px.pc \in {"idle", "done"}
    /\ nReq < MaxReqs
    /\ nReq' = nReq + 1
    /\ LET parsed == ParsePath(path)
           label == parsed.label
           p0 == [NoPx EXCEPT !.n = nReq + 1, !.label = label, !.path = path,
                              !.msgs = parsed.ok /\ IsMessages(parsed.api)]
           p == [p0 EXCEPT !.did = IF ~parsed.ok THEN <<"path">>
                                   ELSE IF GetSessionByLabelAnyUser(label) = {}
                                   THEN <<"path", "lookup">>
                                   ELSE <<"path", "lookup", "quota">>]
           found == GetSessionByLabelAnyUser(label)
           sess == CHOOSE r \in found : TRUE
           tbl == WithSubscription(subs, sess.user)
           used == GetMonthlyUsage(usage, sess.user, clock)
           q == CheckQuota(tbl[sess.user].plan, used.inp + used.out)
       IN
       IF ~parsed.ok THEN
            /\ px' = Answered(p, 400)
            /\ UNCHANGED <<subs, lastPx>>
       ELSE IF found = {} THEN
            /\ px' = Answered(p, 401)
            /\ UNCHANGED <<subs, lastPx>>
       ELSE IF ~dbOk THEN
            /\ px' = Answered([p EXCEPT !.sess = sess], 500)
            /\ UNCHANGED <<subs, lastPx>>
       ELSE /\ subs' = tbl
            /\ lastPx' = [checked |-> TRUE, user |-> sess.user, plan |-> tbl[sess.user].plan,
                          total |-> used.inp + used.out, allowed |-> q.allowed]
            /\ px' = IF q.allowed THEN [p EXCEPT !.pc = "upstream", !.sess = sess]
                     ELSE Answered([p EXCEPT !.sess = sess], 402)
    /\ UNCHANGED <<sessions, usage, clock>>
    /\ UNCHANGED proxyOthers

\* modifyResponse: a response it does not look into
ProxyPassThrough(st, kind) ==
    /\ px.pc = "upstream"
    /\ st # 200 \/ ~px.msgs
    /\ px' = [px EXCEPT !.pc = "done", !.status = st, !.ustatus = st, !.kind = kind]
    /\ UNCHANGED <<nReq, lastPx, sessions, subs, usage, clock>>
    /\ UNCHANGED proxyOthers

\* the row a request inserts for the counts it holds
RowOf(p, inp, out) == UsageRow(p.sess.user, p.sess.id, inp, out, clock, p.n)

\* modifyResponse: a unary 200 response on a messages path
ProxyUnary(body, dbOk) ==
    /\ px.pc = "upstream"
    /\ px.msgs
    /\ LET raw == Text(body)          \* io.ReadAll(resp.Body)
           parsed == UnmarshalUsage(raw)
           record == parsed.ok /\ (parsed.inp > 0 \/ parsed.out > 0)
           p == [px EXCEPT !.pc = "done", !.status = 200, !.ustatus = 200,
                           !.kind = "json", !.body = parsed, !.up = raw,
                           !.served = RestoreBody(raw), !.clen = Len(raw),
                           !.tries = IF record THEN 1 ELSE 0]
       IN /\ record \/ dbOk
          /\ usage' = IF record /\ dbOk
                      THEN usage (+) SetToBag({RowOf(px, parsed.inp, parsed.out)})
                      ELSE usage
          /\ px' = IF record /\ ~dbOk THEN RecordFailed(p) ELSE p
    /\ UNCHANGED <<nReq, lastPx, sessions, subs, clock>>
    /\ UNCHANGED proxyOthers

\* modifyResponse: a streamed 200 response on a messages path is wrapped
ProxyStreamStart ==
    /\ px.pc = "upstream"
    /\ px.msgs
    /\ px' = [px EXCEPT !.pc = "stream", !.status = 200, !.ustatus = 200, !.kind = "sse"]
    /\ UNCHANGED <<nReq, lastPx, sessions, subs, usage, clock>>
    /\ UNCHANGED proxyOthers

\* parseSSEData adding up the output counts of the deltas
ParseSSEDataAdding(p, ev) ==
    IF ev.type = "message_start" THEN [p EXCEPT !.inTok = ev.n]
    ELSE IF ev.type = "message_delta" THEN [p EXCEPT !.outTok = @ + ev.n]
    ELSE p

\* parseSSEData: the counters after one event
ParseSSEData(p, ev) ==
    IF ev.type = "message_start" THEN [p EXCEPT !.inTok = ev.n]
    ELSE IF ev.type = "message_delta" /\ ev.n > 0 THEN [p EXCEPT !.outTok = ev.n]
    ELSE p

\* what a stream has carried so far: whether a message_start or message_delta
\* event came, the input count of the last message_start and the output count
\* of the last message_delta that has one
Carried(seen, ev) ==
    IF ev.type = "message_start" THEN [seen EXCEPT !.ok = TRUE, !.inp = ev.n]
    ELSE IF ev.type = "message_delta"
         THEN [seen EXCEPT !.ok = TRUE, !.out = IF ev.n > 0 THEN ev.n ELSE @]
    ELSE seen

\* sseUsageReader.Read: one complete event arrives
ProxyRead(ev) ==
    /\ px.pc = "stream"
    /\ px.nEv < MaxEvents
    /\ px' = [ParseSSEData(px, ev) EXCEPT
                 !.nEv = @ + 1, !.seen = Carried(@, ev),
                 !.up = Append(@, ev), !.served = Append(@, ev),    \* return n, err
                 !.lastDelta = IF ev.type = "message_delta" THEN ev.n ELSE @]
    /\ UNCHANGED <<nReq, lastPx, sessions, subs, usage, clock>>
    /\ UNCHANGED proxyOthers

\* recordUsageOnce leaving the counters as they are
KeepCounters(p) == p

\* recordUsageOnce: clear to prevent duplicate recording
ClearCounters(p) == [p EXCEPT !.inTok = 0, !.outTok = 0]

\* recordUsageOnce
RecordUsageOnce(dbOk, pc, eof) ==
    LET record == px.inTok > 0 \/ px.outTok > 0
    IN /\ record \/ dbOk
       /\ usage' = IF record /\ dbOk
                   THEN usage (+) SetToBag({RowOf(px, px.inTok, px.outTok)})
                   ELSE usage
       /\ px' = LET p == [(IF record THEN ClearCounters(px) ELSE px)
                              EXCEPT !.pc = pc, !.eof = eof,
                                     !.tries = IF record THEN @ + 1 ELSE @]
                 IN IF record /\ ~dbOk THEN RecordFailed(p) ELSE p

\* sseUsageReader.Read: the upstream body ends
ProxyEOF(dbOk) ==
    /\ px.pc = "stream"
    /\ RecordUsageOnce(dbOk, "eof", TRUE)
    /\ UNCHANGED <<nReq, lastPx, sessions, subs, clock>>
    /\ UNCHANGED proxyOthers

\* sseUsageReader.Close
ProxyClose(dbOk) ==
    /\ px.pc \in {"stream", "eof"}
    /\ RecordUsageOnce(dbOk, "done", px.eof)
    /\ UNCHANGED <<nReq, lastPx, sessions, subs, clock>>
    /\ UNCHANGED proxyOthers

\* the store the proxy starts on: one running session of each user
ProxySessions ==
    {SessionRow("s1", "ua", "m1", "l1", "running", Null),
     SessionRow("s2", "ub", "m2", "l2", "running", Null)}

NextProxy ==
    \/ \E path \in ReqPaths, ok \in BOOLEAN : ProxyServe(path, ok)
    \/ \E st \in UpstreamStatuses, k \in {"sse", "json"} : ProxyPassThrough(st, k)
    \/ \E b \in UnaryBodies, ok \in BOOLEAN : ProxyUnary(b, ok)
    \/ ProxyStreamStart
    \/ \E ev \in SseEvents : ProxyRead(ev)
    \/ \E ok \in BOOLEAN : ProxyEOF(ok)
    \/ \E ok \in BOOLEAN : ProxyClose(ok)

\* the quota gate over the months: unary requests of one session
NextQuota ==
    \/ \E l \in Labels, ok \in BOOLEAN : ProxyServe(MessagesPath(l), ok)
    \/ \E b \in UnaryBodies, ok \in BOOLEAN : ProxyUnary(b, ok)
    \/ Tick

-----------------------------------------------------------------------------
(* The control plane: create, get and stop a session *)

MaxCreates == 2    \* POST /v1/sessions requests

\* ids the store and the provisioner hand out, in order
SessionIds == <<"s1", "s2", "s3", "s4">>
MachineIds == <<"m1", "m2", "m3", "m4">>

\* what GenerateLabel draws from: two draws may give the same label
ApiLabels == {"l1"}

\* what a client can put in the place of {session_id}
Refs == ApiLabels \cup {SessionIds[k] : k \in 1..MaxCreates} \cup {"zz"}

Machine(id, state) == [id |-> id, state |-> state]

\* the machines with one of them put into a state
SetMachine(ms, id, state) == {m \in ms : m.id # id} \cup {Machine(id, state)}

\* the plan CheckQuota would read for the user
PlanOf(u) == WithSubscription(subs, u)[u].plan

\* this month's input+output tokens of the user
TotalOf(u) ==
    LET used == GetMonthlyUsage(usage, u, clock) IN used.inp + used.out

\* a request and its answer: who asked for what, the status, the row the
\* handler acted on and the provisioner calls it made
ApiResult(op, user, x, status, target, calls) ==
    [op |-> op, user |-> user, x |-> x, status |-> status, target |-> target,
     calls |-> calls]

\* the rows of other users that the reference names by id or by label
Foreign(user, x) == {r \in sessions : r.user # user /\ (r.id = x \/ r.label = x)}

\* how far the calls of a create-session request get: CreateMachine fails,
\* WaitMachine fails, the insert fails, or all succeed
CreateOutcomes == {"nomachine", "nostart", "norow", "ok"}

\* the tokens generateToken draws, one for each request
ConnectTokens == <<"t1", "t2", "t3", "t4">>

\* the Cmd of a create-session request, as words
ReqCmds == {<<>>, <<"claude", "-p">>}

\* ANTHROPIC_API_KEY in the environment of the API server, "" if unset
ApiKeys == {"", "sk-ant"}

ProxyHost == "proxy.catty.dev"

\* the metering base URL of the session labelled l
MeteringURL(l) == <<"https://", ProxyHost, "/s/", l>>

\* CreateSession: the default of an empty Cmd
DefaultCmd(cmd) == IF cmd = <<>> THEN <<"/bin/sh">> ELSE cmd

\* joinCmd: the words with a space between
RECURSIVE JoinCmd(_)
JoinCmd(cmd) ==
    IF cmd = <<>> THEN <<"/bin/sh">>
    ELSE IF Len(cmd) = 1 THEN cmd
    ELSE JoinCmd(SubSeq(cmd, 1, Len(cmd) - 1)) \o <<" ", cmd[Len(cmd)]>>

\* CreateSession: machineEnv, a set of name and value
MachineEnv(token, cmd, key) ==
    {<<"CONNECT_TOKEN", <<token>>>>, <<"CATTY_CMD", JoinCmd(cmd)>>}
    \cup (IF key # "" THEN {<<"ANTHROPIC_API_KEY", <<key>>>>} ELSE {})

NoProv == [made |-> FALSE, label |-> "", cmd |-> <<>>, env |-> {}, resp |-> Null, row |-> Null]

\* CreateSession giving up on a machine without deleting it
NoCleanUp(m) == {}

\* CreateSession: "try to clean up", DeleteMachine(machine.ID, true)
CleanUp(m) == {<<"delete", m>>}

\* Handlers.CreateSession
CreateSession(user, label, outcome) ==
    /\ nCreate < MaxCreates
    /\ nCreate' = nCreate + 1
    /\ \E rc \in ReqCmds, key \in ApiKeys :
          LET token == ConnectTokens[nCreate + 1]
              cmd == DefaultCmd(rc)
          IN prov' = IF outcome = "nomachine" THEN NoProv
                     ELSE [made |-> TRUE, label |-> label, cmd |-> cmd,
                           env |-> MachineEnv(token, cmd, key),
                           resp |-> IF outcome = "ok" THEN Some(token) ELSE Null,
                           row |-> IF outcome = "ok" THEN Some(token) ELSE Null]
    /\ LET m == MachineIds[nCreate + 1]
           row == SessionRow(SessionIds[nCreate + 1], user, m, label, "running", Null)
       IN
       IF outcome = "nomachine" THEN
            /\ lastApi' = ApiResult("create", user, label, 500, "", {})
            /\ UNCHANGED <<machines, sessions>>
       ELSE IF outcome = "nostart" THEN   \* the machine is deleted again
            /\ lastApi' = ApiResult("create", user, label, 500, "",
                                    {<<"create", m>>} \cup CleanUp(m))
            /\ UNCHANGED <<machines, sessions>>
       ELSE IF outcome = "norow" THEN     \* savedSession is nil: the handler
                                          \* panics and Recoverer answers 500
            /\ lastApi' = ApiResult("create", user, label, 500, "",
                                    {<<"create", m>>})
            /\ machines' = machines \cup {Machine(m, "started")}
            /\ UNCHANGED sessions
       ELSE /\ lastApi' = ApiResult("create", user, label, 200, row.id,
                                    {<<"create", m>>})
            /\ machines' = machines \cup {Machine(m, "started")}
            /\ sessions' = sessions \cup {row}
    /\ UNCHANGED <<subs, usage, clock>>
    /\ UNCHANGED apiOthers

\* the ownership check skipped
OwnsAny(r, user) == TRUE

\* session.UserID != dbUser.ID
Owns(r, user) == r.user = user

\* GetSessionByID, then GetSessionByLabel within the user: the rows the
\* handler may end up holding
Lookup(user, x) ==
    IF \E r \in sessions : r.id = x
    THEN {r \in sessions : r.id = x}
    ELSE {r \in sessions : r.user = user /\ r.label = x}

\* Handlers.GetSession
GetSession(user, x, live) ==
    /\ \/ /\ Lookup(user, x) = {}
          /\ lastApi' = ApiResult("get", user, x, 404, "", {})
       \/ \E r \in Lookup(user, x) :
             lastApi' = IF ~Owns(r, user)
                        THEN ApiResult("get", user, x, 404, "", {})
                        ELSE ApiResult("get", user, x, 200, r.id,
                                       IF live THEN {<<"get", r.machine>>} ELSE {})
    /\ prov' = NoProv
    /\ UNCHANGED <<machines, nCreate, sessions, subs, usage, clock>>
    /\ UNCHANGED apiOthers

\* UpdateSessionStatus(id, "stopped")
Stopped(r) == [r EXCEPT !.status = "stopped", !.ended = Some(clock)]

\* how far the calls of a stop request get: StopMachine fails, DeleteMachine
\* fails, the store fails, or all succeed
StopOutcomes(del) ==
    IF del THEN {"nostop", "nodelete", "norow", "ok"} ELSE {"nostop", "norow", "ok"}

\* Handlers.StopSession
StopSession(user, x, del) ==
    /\ \/ /\ Lookup(user, x) = {}
          /\ lastApi' = ApiResult("stop", user, x, 404, "", {})
          /\ UNCHANGED <<machines, sessions>>
       \/ \E r \in Lookup(user, x) :
             IF ~Owns(r, user) THEN
                  /\ lastApi' = ApiResult("stop", user, x, 404, "", {})
                  /\ UNCHANGED <<machines, sessions>>
             ELSE \E outcome \in StopOutcomes(del) :
                  IF outcome = "nostop" THEN
                       /\ lastApi' = ApiResult("stop", user, x, 500, r.id,
                                               {<<"stop", r.machine>>})
                       /\ UNCHANGED <<machines, sessions>>
                  ELSE IF outcome = "nodelete" THEN
                       /\ lastApi' = ApiResult("stop", user, x, 500, r.id,
                                               {<<"stop", r.machine>>, <<"delete", r.machine>>})
                       /\ machines' = SetMachine(machines, r.machine, "stopped")
                       /\ UNCHANGED sessions
                  ELSE IF del THEN
                       /\ lastApi' = ApiResult("stop", user, x, 200, r.id,
                                               {<<"stop", r.machine>>, <<"delete", r.machine>>})
                       /\ machines' = {m \in machines : m.id # r.machine}
                       /\ sessions' = IF outcome = "ok" THEN sessions \ {r} ELSE sessions
                  ELSE /\ lastApi' = ApiResult("stop", user, x, 200, r.id,
                                               {<<"stop", r.machine>>})
                       /\ machines' = SetMachine(machines, r.machine, "stopped")
                       /\ sessions' = IF outcome = "ok"
                                      THEN (sessions \ {r}) \cup {Stopped(r)}
                                      ELSE sessions
    /\ prov' = NoProv
    /\ UNCHANGED <<nCreate, subs, usage, clock>>
    /\ UNCHANGED apiOthers

NextApi ==
    \/ \E u \in Users, l \in ApiLabels, o \in CreateOutcomes : CreateSession(u, l, o)
    \/ \E u \in Users, x \in Refs, live \in BOOLEAN : GetSession(u, x, live)
    \/ \E u \in Users, x \in Refs, del \in BOOLEAN : StopSession(u, x, del)

\* the life of a user's sessions over time: created, stopped, stopped again
NextStop ==
    \/ \E l \in ApiLabels : CreateSession("ua", l, "ok")
    \/ \E u \in Users, x \in Refs, del \in BOOLEAN : StopSession(u, x, del)
    \/ Tick

-----------------------------------------------------------------------------
(* The payments webhook *)

EventTypes ==
    {"checkout.session.completed", "customer.subscription.created",
     "customer.subscription.updated", "customer.subscription.deleted",
     "invoice.paid"}

\* deliveries of one event in a row that are told apart
MaxDeliveries == 2

\* period starts a subscription object carries
PeriodStarts == {1, 2}

Event(type, cust, hasSub, ps) ==
    [type |-> type, cust |-> cust, sid |-> "sub_1", hasSub |-> hasSub,
     ps |-> ps, pe |-> ps + MonthLen]

\* the events the provider sends: a checkout session with or without a
\* subscription, and subscription objects with their period
Events ==
    {Event("checkout.session.completed", c, h, 1) : c \in Customers, h \in BOOLEAN}
    \cup {Event(t, c, TRUE, p) : t \in EventTypes \ {"checkout.session.completed"},
                                 c \in Customers, p \in PeriodStarts}

\* GetUserByStripeCustomerID: the users that carry the customer id
UsersOfCustomer(cust) == {u \in Users : subs[u].cust = Some(cust)}

\* UpdateSubscription
UpdateSubscription(tbl, u, plan, cust, sid, ps, pe) ==
    IF tbl[u] = NoSub THEN tbl
    ELSE [tbl EXCEPT ![u] = SubRow(plan, Some(cust), Some(sid), Some(ps), Some(pe))]

\* UpdateSubscriptionPlan
UpdateSubscriptionPlan(tbl, u, plan) ==
    IF tbl[u] = NoSub THEN tbl ELSE [tbl EXCEPT ![u].plan = plan]

\* UpdateSubscriptionPeriod
UpdateSubscriptionPeriod(tbl, u, ps, pe) ==
    IF tbl[u] = NoSub THEN tbl ELSE [tbl EXCEPT ![u].ps = Some(ps), ![u].pe = Some(pe)]

\* handleCheckoutCompleted, handleSubscriptionCreated, handleSubscriptionDeleted,
\* handleSubscriptionUpdated: the table after the event is handled for user u
Handled(tbl, e, u, now) ==
    IF e.type = "checkout.session.completed" THEN
        IF e.hasSub
        THEN UpdateSubscription(tbl, u, "pro", e.cust, e.sid, now, now + MonthLen)
        ELSE tbl
    ELSE IF e.type = "customer.subscription.created" THEN
        UpdateSubscription(tbl, u, "pro", e.cust, e.sid, e.ps, e.pe)
    ELSE IF e.type = "customer.subscription.deleted" THEN
        UpdateSubscriptionPlan(tbl, u, "free")
    ELSE IF e.type = "customer.subscription.updated" THEN
        UpdateSubscriptionPeriod(tbl, u, e.ps, e.pe)
    ELSE tbl

NoHook == [n |-> 0]

\* the delivery just made: the event, how many times in a row it has now been
\* handled, and the tables as its first handling left them
Delivered(e, tbl) ==
    IF hook.n > 0 /\ hook.ev = e
    THEN [hook EXCEPT !.n = IF @ < MaxDeliveries THEN @ + 1 ELSE @]
    ELSE [n |-> 1, ev |-> e, subs |-> tbl, usage |-> usage]

\* the answer to the last webhook request: its status, the event delivered,
\* whether its signature verified, and the event type the switch looked at
NoResp == [status |-> 0, ev |-> Null, verified |-> FALSE, type |-> ""]
Resp(status, e, verified, type) ==
    [status |-> status, ev |-> Some([type |-> e.type, cust |-> e.cust]),
     verified |-> verified, type |-> type]

\* the event types whose object the handler unmarshals
SwitchTypes ==
    {"checkout.session.completed", "customer.subscription.created",
     "customer.subscription.deleted", "customer.subscription.updated"}

\* a handler that takes the event without looking at the signature
ConstructEventUnverified(sigOk) == TRUE

\* webhook.ConstructEventWithOptions: an error unless the signature header
\* verifies the payload against the secret
ConstructEvent(sigOk) == sigOk

\* what can go wrong with one request: the body cannot be read, the
\* signature does not verify, the event's object does not parse, the store
\* fails
WebhookFailures == {"none", "read", "sig", "parse", "db"}

\* HandleStripeWebhook
Webhook(e, fail) ==
    /\ LET readOk == fail # "read"
           sigOk == fail # "sig"
           parseOk == fail # "parse"
           dbOk == fail # "db"
       IN
       IF ~readOk
       THEN /\ hookResp' = Resp(503, e, FALSE, "")   \* error reading request body
            /\ UNCHANGED <<subs, hook>>
       ELSE IF ~ConstructEvent(sigOk)
       THEN /\ hookResp' = Resp(400, e, FALSE, "")   \* invalid signature
            /\ UNCHANGED <<subs, hook>>
       ELSE IF e.type \in SwitchTypes /\ ~parseOk
       THEN /\ hookResp' = Resp(400, e, sigOk, e.type)  \* error parsing webhook JSON
            /\ UNCHANGED <<subs, hook>>
       ELSE /\ hookResp' = Resp(200, e, sigOk, e.type)
            /\ IF UsersOfCustomer(e.cust) = {} \/ ~dbOk
               THEN /\ UNCHANGED subs                \* logged, answered 200
                    /\ hook' = NoHook
               ELSE \E u \in UsersOfCustomer(e.cust) :
                       /\ subs' = Handled(subs, e, u, clock)
                       /\ hook' = Delivered(e, subs')
    /\ UNCHANGED <<sessions, usage, clock>>
    /\ UNCHANGED billOthers

NextBilling ==
    \/ \E e \in Events, fail \in WebhookFailures : Webhook(e, fail)
    \/ Tick

-----------------------------------------------------------------------------
(* Control frames: constructors, JSON encoding, ParseMessage, handleControl *)

\* a Go string is a sequence of bytes; "xFF" is a byte that is not valid
\* UTF-8, "uFFFD" is the replacement character, "<" is a character that
\* encoding/json writes as an escape
Strings == {<<>>, <<"S">>, <<"<">>, <<"xFF">>, <<"S", "xFF">>, <<"<", "S">>}
Uint16s == {0, 80, 65535}
ExitValues == {-1, 0, 137}

\* the cols and rows a client can put in a resize frame
RawDims == {-1, 0, 1, 80, 65535, 65536}

NewResizeMessage(cols, rows) == [type |-> "resize", cols |-> cols, rows |-> rows]
NewSignalMessage(name) == [type |-> "signal", name |-> name]
NewPingMessage == [type |-> "ping"]
NewPongMessage == [type |-> "pong"]
NewReadyMessage == [type |-> "ready"]
NewExitMessage(code, signal) == [type |-> "exit", code |-> code, signal |-> signal]
NewErrorMessage(message) == [type |-> "error", message |-> message]

\* every message the constructors build from the field values above
Messages ==
    {NewResizeMessage(c, r) : c \in Uint16s, r \in Uint16s}
    \cup {NewSignalMessage(n) : n \in Strings}
    \cup {NewPingMessage, NewPongMessage, NewReadyMessage}
    \cup {NewExitMessage(c, s) : c \in ExitValues, s \in {Null} \cup {Some(n) : n \in Strings}}
    \cup {NewErrorMessage(m) : m \in Strings}

\* json.Marshal of a string: a byte that is not valid UTF-8 is written as the
\* escape of U+FFFD, and < as the escape <
JsonChar(c) == IF c = "xFF" THEN "\\ufffd" ELSE IF c = "<" THEN "\\u003c" ELSE c
JsonString(s) == [i \in 1..Len(s) |-> JsonChar(s[i])]

\* json.Unmarshal of a string: escapes become the characters they name
UnquoteChar(t) == IF t = "\\ufffd" THEN "uFFFD" ELSE IF t = "\\u003c" THEN "<" ELSE t
KeepEscapes(w) == w
Unquote(w) == [i \in 1..Len(w) |-> UnquoteChar(w[i])]

\* json.Marshal of a message: an object with one member for each struct field;
\* a nil *string is null
Marshal(m) ==
    CASE m.type = "signal" -> [type |-> m.type, name |-> JsonString(m.name)]
      [] m.type = "exit" -> [type |-> m.type, code |-> m.code,
                             signal |-> IF m.signal = Null THEN Null
                                        ELSE Some(JsonString(m.signal[1]))]
      [] m.type = "error" -> [type |-> m.type, message |-> JsonString(m.message)]
      [] OTHER -> m

\* json.Unmarshal leaves a struct field whose member is absent at its zero value
Member(w, k, zero) == IF k \in DOMAIN w THEN w[k] ELSE zero
IsUint16(v) == v \in 0..65535

ParseError == [ok |-> FALSE, msg |-> Null]
Parsed(m) == [ok |-> TRUE, msg |-> Some(m)]

ParseMessage(w) ==
    LET typ == Member(w, "type", "")
    IN CASE typ = "resize" ->
              LET cols == Member(w, "cols", 0)
                  rows == Member(w, "rows", 0)
              IN IF IsUint16(cols) /\ IsUint16(rows)
                 THEN Parsed([type |-> typ, cols |-> cols, rows |-> rows])
                 ELSE ParseError
         [] typ = "signal" ->
              Parsed([type |-> typ, name |-> Unquote(Member(w, "name", <<>>))])
         [] typ = "ping" -> Parsed([type |-> "ping"])
         [] typ = "pong" -> Parsed([type |-> "pong"])
         [] typ = "ready" -> Parsed([type |-> "ready"])
         [] typ = "exit" ->
              LET sg == Member(w, "signal", Null)
              IN Parsed([type |-> typ, code |-> Member(w, "code", 0),
                         signal |-> IF sg = Null THEN Null ELSE Some(Unquote(sg[1]))])
         [] typ = "error" ->
              Parsed([type |-> typ, message |-> Unquote(Member(w, "message", <<>>))])
         [] OTHER -> Parsed([type |-> typ])

\* PTY.Resize: the window size handed to pty.Setsize
Resize(cols, rows) == <<cols, rows>>

\* the names handleSignal knows
KnownSignals == {<<"S">>}
HandleSignal(name) == IF name \in KnownSignals THEN Some(name) ELSE Null

\* text frames a client can send that no constructor built
RawFrames ==
    {[type |-> "resize", cols |-> c, rows |-> r] : c \in RawDims, r \in RawDims}
    \cup {[type |-> "resize"], [type |-> "bogus"]}

NoCtl == [pc |-> "none", msg |-> Null, wire |-> Null, parsed |-> Null,
          winsize |-> Null, signalled |-> Null, replied |-> FALSE]
NewCtl(m) == [NoCtl EXCEPT !.pc = "new", !.msg = Some(m)]
RawCtl(w) == [NoCtl EXCEPT !.pc = "wire", !.wire = Some(w)]

\* sendControl, sendResize, sendPong: json.Marshal and a text frame
Encode ==
    /\ ctl.pc = "new"
    /\ ctl' = [ctl EXCEPT !.pc = "wire", !.wire = Some(Marshal(ctl.msg[1]))]
    /\ UNCHANGED codecOthers

\* the client takes the text frame: ParseMessage
ClientParse ==
    /\ ctl.pc = "wire"
    /\ ctl' = [ctl EXCEPT !.pc = "parsed", !.parsed = Some(ParseMessage(ctl.wire[1]))]
    /\ UNCHANGED codecOthers

\* the executor takes the text frame: Relay.handleControl.  A frame that does
\* not parse is logged by relayWSToPTY and nothing else happens
HandleControl ==
    /\ ctl.pc = "wire"
    /\ LET r == ParseMessage(ctl.wire[1])
           kind == IF r.ok THEN r.msg[1].type ELSE ""
       IN ctl' = [ctl EXCEPT !.pc = "handled",
                             !.parsed = Some(r),
                             !.winsize = IF kind = "resize"
                                         THEN Some(Resize(r.msg[1].cols, r.msg[1].rows))
                                         ELSE @,
                             !.signalled = IF kind = "signal"
                                           THEN HandleSignal(r.msg[1].name)
                                           ELSE @,
                             !.replied = (kind = "ping")]
    /\ UNCHANGED codecOthers

NextCodec ==
    \/ Encode
    \/ ClientParse
    \/ HandleControl

-----------------------------------------------------------------------------
(* The client: cli connect and the terminal *)

\* the settings a terminal can be in before the client starts
TtyStates == {"cooked", "cbreak", "noecho"}
StdinEvents == {"data", "eof", "err"}
WsEvents == {"bin", "ping", "error", "exit", "bad", "closed"}
KillSignals == {"SIGINT", "SIGTERM"}

NoTerm == [pc |-> "none", tty |-> "cooked", oldState |-> Null, stdin |-> "none",
           ws |-> "none", done |-> <<>>, cause |-> "", resized |-> FALSE,
           ponged |-> FALSE]
NewTerm(t) == [NoTerm EXCEPT !.pc = "dialed", !.tty = t]

\* Terminal.MakeRaw: the old state is kept when term.MakeRaw succeeds
MakeRaw(t, ok) == IF ok THEN [t EXCEPT !.oldState = Some(t.tty), !.tty = "raw"] ELSE t

\* Terminal.Restore
Restore(t) == IF t.oldState = Null THEN t ELSE [t EXCEPT !.tty = t.oldState[1]]

\* connect up to the start of its goroutines: raw mode, the deferred Restore,
\* the first resize, the SIGWINCH handler
ConnectRaw(ok) ==
    /\ term.pc = "dialed"
    /\ term' = IF ok
               THEN [MakeRaw(term, ok) EXCEPT !.pc = "relay", !.stdin = "run", !.ws = "run"]
               ELSE [MakeRaw(term, ok) EXCEPT !.pc = "ended", !.cause = "makeraw"]
    /\ UNCHANGED termOthers

\* the stdin goroutine: io.EOF ends it silently, another error or a failed
\* write goes on done
StdinStep(ev, writeOk) ==
    /\ term.pc = "relay"
    /\ term.stdin = "run"
    /\ term' = IF ev = "eof"
               THEN [term EXCEPT !.stdin = "stopped"]
               ELSE IF ev = "err" \/ ~writeOk
                    THEN [term EXCEPT !.stdin = "stopped", !.done = Append(@, "stdin")]
                    ELSE term
    /\ term' # term
    /\ UNCHANGED termOthers

\* the websocket goroutine: a read error or an exit frame goes on done
WsStep(ev) ==
    /\ term.pc = "relay"
    /\ term.ws = "run"
    /\ term' = CASE ev = "closed" -> [term EXCEPT !.ws = "stopped", !.done = Append(@, "conn")]
                 [] ev = "exit" -> [term EXCEPT !.ws = "stopped", !.done = Append(@, "exit")]
                 [] ev = "ping" -> [term EXCEPT !.ponged = TRUE]
                 [] OTHER -> term
    /\ term' # term
    /\ UNCHANGED termOthers

\* SIGWINCH: the resize goroutine sends the new size
Winch ==
    /\ term.pc = "relay"
    /\ ~term.resized
    /\ term' = [term EXCEPT !.resized = TRUE]
    /\ UNCHANGED termOthers

\* return <-done, then the deferred calls: Restore among them
ConnectReturn ==
    /\ term.pc = "relay"
    /\ term.done # <<>>
    /\ term' = [Restore(term) EXCEPT !.pc = "ended", !.cause = Head(term.done)]
    /\ UNCHANGED termOthers

\* SIGINT or SIGTERM reaches the process: connect installs a handler for
\* SIGWINCH only, so the runtime ends the process and no deferred call runs
Killed(sig) ==
    /\ term.pc = "relay"
    /\ term' = [term EXCEPT !.pc = "ended", !.cause = sig]
    /\ UNCHANGED termOthers

NextClient ==
    \/ \E ok \in BOOLEAN : ConnectRaw(ok)
    \/ \E ev \in StdinEvents, ok \in BOOLEAN : StdinStep(ev, ok)
    \/ \E ev \in WsEvents : WsStep(ev)
    \/ Winch
    \/ ConnectReturn
    \/ \E sig \in KillSignals : Killed(sig)

-----------------------------------------------------------------------------
(* The write side of a relay: sendBinary and sendControl under Relay.mu *)

\* the goroutines of a relay that write to its connection: Run (ready, exit),
\* relayPTYToWS (binary frames), relayWSToPTY (the pong that answers a
\* ping), pingLoop (pings)
Senders == {"run", "p2w", "w2p", "ping"}

\* how many frames each of them sends
FramesOf == [s \in Senders |-> IF s \in {"run", "p2w"} THEN 2 ELSE 1]

Frame(s, k) == [by |-> s, k |-> k, kind |-> IF s = "p2w" THEN "bin" ELSE "txt"]

InitLock ==
    /\ mu = "free"
    /\ snd = [s \in Senders |-> [pc |-> "idle", n |-> 0]]
    /\ sock = <<>>

\* a send that does not wait for the mutex
LockAny(m) == TRUE

\* sync.Mutex.Lock returns when the mutex is free
Lock(m) == m = "free"

\* sendBinary, sendControl: the goroutine has its next frame and calls Lock
SendCall(s) ==
    /\ snd[s].pc = "idle"
    /\ snd[s].n < FramesOf[s]
    /\ snd' = [snd EXCEPT ![s] = [pc |-> "lock", n |-> @.n + 1]]
    /\ UNCHANGED <<mu, sock>>
    /\ UNCHANGED lockOthers

\* r.mu.Lock() returns and conn.Write begins
SendLock(s) ==
    /\ snd[s].pc = "lock"
    /\ Lock(mu)
    /\ mu' = s
    /\ snd' = [snd EXCEPT ![s].pc = "write"]
    /\ UNCHANGED sock
    /\ UNCHANGED lockOthers

\* conn.Write returns: the frame is on the connection
SendWrite(s) ==
    /\ snd[s].pc = "write"
    /\ sock' = Append(sock, Frame(s, snd[s].n))
    /\ snd' = [snd EXCEPT ![s].pc = "unlock"]
    /\ UNCHANGED mu
    /\ UNCHANGED lockOthers

\* the deferred r.mu.Unlock()
SendUnlock(s) ==
    /\ snd[s].pc = "unlock"
    /\ mu' = "free"
    /\ snd' = [snd EXCEPT ![s].pc = "idle"]
    /\ UNCHANGED sock
    /\ UNCHANGED lockOthers

NextWriters ==
    \/ \E s \in Senders : SendCall(s)
    \/ \E s \in Senders : SendLock(s)
    \/ \E s \in Senders : SendWrite(s)
    \/ \E s \in Senders : SendUnlock(s)

-----------------------------------------------------------------------------
(* The request sent upstream: ServeHTTP, director and the reverse proxy *)

AnthropicHost == "api.anthropic.com"
AnthropicKey == "sk-proxy"       \* Proxy.anthropicKey
RemoteIP == "10.0.0.9"           \* the host of the caller's RemoteAddr

\* the header names of the model, in canonical form; a header maps a name
\* to its values, none if the header is absent
HeaderNames == {"X-Api-Key", "Authorization", "Content-Type", "Connection", "X-Forwarded-For"}

InHeaders ==
    {h \in [HeaderNames -> {<<>>, <<"sk-caller">>, <<"Bearer t">>, <<"application/json">>,
                             <<"close">>, <<"X-Api-Key">>, <<"Content-Type">>, <<"1.1.1.1">>}] :
        /\ h["X-Api-Key"] \in {<<>>, <<"sk-caller">>}
        /\ h["Authorization"] \in {<<>>, <<"Bearer t">>}
        /\ h["Content-Type"] \in {<<>>, <<"application/json">>}
        /\ h["Connection"] \in {<<>>, <<"close">>, <<"X-Api-Key">>, <<"Content-Type">>}
        /\ h["X-Forwarded-For"] \in {<<>>, <<"1.1.1.1">>}}

\* the requests a caller sends that pass the gates of ServeHTTP
InRequests == [method : {"GET", "POST"}, host : {"proxy"}, body : {<<>>, <<"b">>}, hdr : InHeaders]

NoHTTPReq == [method |-> "", host |-> "", body |-> <<>>, hdr |-> [n \in HeaderNames |-> <<>>]]
NoFwd == [pc |-> "idle", in |-> NoHTTPReq, out |-> NoHTTPReq]

\* http.Header.Set, http.Header.Del
HeaderSet(h, name, v) == [h EXCEPT ![name] = <<v>>]
HeaderDel(h, name) == [h EXCEPT ![name] = <<>>]

\* Proxy.director
Director(req) ==
    [req EXCEPT !.host = AnthropicHost,
                !.hdr = HeaderDel(HeaderSet(@, "X-Api-Key", AnthropicKey), "Authorization")]

\* the hop-by-hop headers httputil.ReverseProxy removes whatever they hold
HopHeaders == {"Connection"}

\* httputil.ReverseProxy after Director has returned: the headers named in
\* Connection and the hop-by-hop headers are deleted
RemoveHopByHopHeaders(h) ==
    [n \in HeaderNames |->
        IF n \in HopHeaders \/ \E i \in 1..Len(h["Connection"]) : h["Connection"][i] = n
        THEN <<>> ELSE h[n]]

\* httputil.ReverseProxy with a Director: the caller's address is appended
\* to what X-Forwarded-For holds
AddForwardedFor(h, ip) == [h EXCEPT !["X-Forwarded-For"] = Append(@, ip)]

\* httputil.ReverseProxy.ServeHTTP: the request that goes out
OutRequest(req) ==
    LET d == Director(req)
    IN [d EXCEPT !.hdr = AddForwardedFor(RemoveHopByHopHeaders(@), RemoteIP)]

\* ServeHTTP: a request has passed the gates
ProxyAccept(req) ==
    /\ fwd.pc \in {"idle", "sent"}
    /\ fwd' = [pc |-> "gated", in |-> req, out |-> NoHTTPReq]
    /\ UNCHANGED fwdOthers

\* ServeHTTP: p.reverseProxy.ServeHTTP(w, r)
ProxyForward ==
    /\ fwd.pc = "gated"
    /\ fwd' = [fwd EXCEPT !.pc = "sent", !.out = OutRequest(fwd.in)]
    /\ UNCHANGED fwdOthers

NextForward ==
    \/ \E req \in InRequests : ProxyAccept(req)
    \/ ProxyForward

-----------------------------------------------------------------------------
(* The bytes of a streamed response: sseUsageReader.Read and parseSSEEvents *)

\* a body is a sequence of pieces: the line ends "LF" and "CR", the prefix
\* "data: ", and the payloads of data lines; a Read may end after any piece
Payloads == {"start1", "delta2", "delta0", "[DONE]", "ping"}
Separators == {<<"LF", "LF">>, <<"CR", "LF", "CR", "LF">>}

\* an event of the stream: an optional event line, a data line, a separator
Blocks ==
    {<<"data: ", p>> \o sep : p \in Payloads, sep \in Separators}
    \cup {<<"event: x", "LF", "data: ", "start2">> \o sep : sep \in Separators}

\* what upstream may leave after the last separator
Rests == {<<>>, <<"data: ", "delta2">>}

\* the bodies upstream sends
Streams == {a \o b \o t : a \in Blocks, b \in Blocks, t \in Rests}

\* json.Unmarshal of the payload of a data line: the event it holds
PayloadEvent(data) ==
    IF Len(data) # 1 THEN [type |-> "", n |-> 0]
    ELSE CASE data[1] = "start1" -> [type |-> "message_start", n |-> 1]
           [] data[1] = "start2" -> [type |-> "message_start", n |-> 2]
           [] data[1] = "delta2" -> [type |-> "message_delta", n |-> 2]
           [] data[1] = "delta0" -> [type |-> "message_delta", n |-> 0]
           [] data[1] = "ping" -> [type |-> "ping", n |-> 0]
           [] OTHER -> [type |-> "", n |-> 0]

\* bytes.Index: where pat first occurs in b, 0 if nowhere
Index(b, pat) ==
    LET at == {i \in 1..(Len(b) - Len(pat) + 1) : SubSeq(b, i, i + Len(pat) - 1) = pat}
    IN IF at = {} THEN 0 ELSE CHOOSE i \in at : \A j \in at : i <= j

\* bytes.Split(event, "\n")
RECURSIVE SplitLines(_)
SplitLines(b) ==
    LET i == Index(b, <<"LF">>)
    IN IF i = 0 THEN <<b>>
       ELSE <<SubSeq(b, 1, i - 1)>> \o SplitLines(SubSeq(b, i + 1, Len(b)))

\* bytes.TrimSuffix(line, "\r")
TrimCR(line) ==
    IF line # <<>> /\ line[Len(line)] = "CR" THEN SubSeq(line, 1, Len(line) - 1) ELSE line

\* parseSSEEvent: one line of an event block
ParseLine(r, raw) ==
    LET line == TrimCR(raw)
    IN IF line # <<>> /\ line[1] = "data: "
       THEN LET data == Tail(line)
            IN IF data = <<"[DONE]">> THEN r ELSE ParseSSEData(r, PayloadEvent(data))
       ELSE r

\* parseSSEEvent: the lines of an event block, in order
RECURSIVE ParseLines(_, _)
ParseLines(r, lines) ==
    IF lines = <<>> THEN r ELSE ParseLines(ParseLine(r, Head(lines)), Tail(lines))

ParseSSEEvent(r, event) == ParseLines(r, SplitLines(event))

\* a reader that forgets what is left of its buffer between two Reads
DropBuffer(b) == <<>>

\* parseSSEEvents leaves the bytes after the last separator in the buffer
KeepBuffer(b) == b

\* parseSSEEvents: the events the buffer holds are taken out of it, "\n\n"
\* looked for first and "\r\n\r\n" only when there is none
RECURSIVE ParseSSEEvents(_)
ParseSSEEvents(r) ==
    LET b == r.buffer
        i == Index(b, <<"LF", "LF">>)
        j == Index(b, <<"CR", "LF", "CR", "LF">>)
    IN IF i # 0
       THEN ParseSSEEvents(
                [ParseSSEEvent(r, SubSeq(b, 1, i - 1)) EXCEPT !.buffer = SubSeq(b, i + 2, Len(b))])
       ELSE IF j # 0
       THEN ParseSSEEvents(
                [ParseSSEEvent(r, SubSeq(b, 1, j - 1)) EXCEPT !.buffer = SubSeq(b, j + 4, Len(b))])
       ELSE [r EXCEPT !.buffer = KeepBuffer(b)]

NoSse == [pc |-> "none", up |-> <<>>, pos |-> 0, buffer |-> <<>>, inTok |-> 0, outTok |-> 0,
          served |-> <<>>, reads |-> 0, rec |-> Null]

\* modifyResponse wraps the body of a streamed response
SseWrap(stream) ==
    /\ sse.pc = "none"
    /\ sse' = [NoSse EXCEPT !.pc = "open", !.up = stream]
    /\ UNCHANGED sseOthers

\* sseUsageReader.Read: upstream gives n bytes
SseRead(n) ==
    /\ sse.pc = "open"
    /\ sse.pos + n <= Len(sse.up)
    /\ LET p == SubSeq(sse.up, sse.pos + 1, sse.pos + n)
           r == [sse EXCEPT !.buffer = @ \o p]
       IN sse' = [ParseSSEEvents(r) EXCEPT !.pos = @ + n, !.served = @ \o p,
                                          !.reads = IF @ < 2 THEN @ + 1 ELSE @]
    /\ UNCHANGED sseOthers

\* recordUsageOnce: the pair that is recorded, none when both counts are zero
Recorded(r) ==
    IF r.inTok > 0 \/ r.outTok > 0 THEN Some(<<r.inTok, r.outTok>>) ELSE Null

\* sseUsageReader.Read: upstream is at its end, recordUsageOnce
SseEOF ==
    /\ sse.pc = "open"
    /\ sse.pos = Len(sse.up)
    /\ sse' = [sse EXCEPT !.pc = "eof", !.rec = Recorded(sse),
                          !.inTok = 0, !.outTok = 0]
    /\ UNCHANGED sseOthers

NextSse ==
    \/ \E stream \in Streams : SseWrap(stream)
    \/ \E n \in 1..Len(sse.up) : SseRead(n)
    \/ SseEOF

-----------------------------------------------------------------------------
(* The token cache: PollDeviceToken, ValidateToken, AuthMiddleware *)

MaxNow == 3      \* instants the clock of the control plane runs through
CacheTTL == 2    \* 24 * time.Hour, in instants of that clock

\* the requests behind the middleware, and one device-token poll
AuthReqs == {"r1", "r2"}
Poller == "poll"

\* tg is a token the identity provider may validate, tb one it never does
AuthTokens == {"tg", "tb"}

\* Authorization headers, as the scheme with its blank and the rest
BearerHeaders ==
    {<<>>, <<"Bearer ">>, <<"Basic ", "tg">>, <<"bearer ", "tg">>,
     <<"Bearer ", "tg">>, <<"Bearer ", "tb">>}

\* what the call to the identity provider gives: a status, or 0 when the
\* call itself fails
IdpAnswers == {0, 200, 401, 500}
IdpMay(token) == IF token = "tg" THEN IdpAnswers ELSE IdpAnswers \ {200}

\* extractBearerToken: len(auth) > 7 && auth[:7] == "Bearer "
ExtractBearerToken(h) == IF Len(h) > 1 /\ h[1] = "Bearer " THEN h[2] ELSE ""

\* a cache that never looks at expiresAt
NeverExpires(now, expiresAt) == TRUE

\* ValidateToken: time.Now().Before(entry.expiresAt)
Before(now, expiresAt) == now < expiresAt

\* a request: where it is, its token, the entry it found (expiresAt, 0 for
\* none) and when, the provider's answer, and how it ended
NoAuthReq == [pc |-> "none", token |-> "", exp |-> 0, at |-> 0, hit |-> FALSE,
              idp |-> 0, out |-> ""]

\* NewAuthHandlers: an empty map, a free lock
NoAuth == [cache |-> [t \in {} |-> 0], now |-> 0, readers |-> {}, writer |-> {},
           raced |-> FALSE, req |-> [r \in AuthReqs \cup {Poller} |-> NoAuthReq]]

\* AuthMiddleware: extractBearerToken, 401 without a token
AuthArrive(r, h) ==
    /\ authn.req[r].pc = "none"
    /\ LET token == ExtractBearerToken(h)
       IN authn' = IF token = ""
                  THEN [authn EXCEPT !.req[r].pc = "done", !.req[r].out = "401"]
                  ELSE [authn EXCEPT !.req[r].pc = "rlock", !.req[r].token = token]
    /\ UNCHANGED authOthers

\* ValidateToken: h.tokenCacheMu.RLock()
AuthRLock(r) ==
    /\ authn.req[r].pc = "rlock"
    /\ authn.writer = {}
    /\ authn' = [authn EXCEPT !.readers = @ \cup {r}, !.req[r].pc = "lookup"]
    /\ UNCHANGED authOthers

\* ValidateToken: entry, ok := h.tokenCache[token]; ok && Before(expiresAt)
AuthLookup(r) ==
    /\ authn.req[r].pc = "lookup"
    /\ LET t == authn.req[r].token
           ok == t \in DOMAIN authn.cache
           exp == IF ok THEN authn.cache[t] ELSE 0
       IN authn' = [authn EXCEPT !.req[r].pc = "runlock",
                               !.req[r].exp = exp, !.req[r].at = authn.now,
                               !.req[r].hit = ok /\ Before(authn.now, exp),
                               !.raced = @ \/ r \notin authn.readers \/ authn.writer # {}]
    /\ UNCHANGED authOthers

\* ValidateToken: RUnlock; a hit returns the entry's user and AuthMiddleware
\* calls next, a miss goes on to the identity provider
AuthRUnlock(r) ==
    /\ authn.req[r].pc = "runlock"
    /\ authn' = IF authn.req[r].hit
               THEN [authn EXCEPT !.readers = @ \ {r}, !.req[r].pc = "done",
                                 !.req[r].out = "next"]
               ELSE [authn EXCEPT !.readers = @ \ {r}, !.req[r].pc = "idp"]
    /\ UNCHANGED authOthers

\* ValidateToken: GET /user_management/users/me; anything but a 200 that
\* decodes is an error and AuthMiddleware answers 401
AuthIdp(r, code) ==
    /\ authn.req[r].pc = "idp"
    /\ code \in IdpMay(authn.req[r].token)
    /\ authn' = IF code = 200
               THEN [authn EXCEPT !.req[r].pc = "lock", !.req[r].idp = code]
               ELSE [authn EXCEPT !.req[r].pc = "done", !.req[r].idp = code,
                                 !.req[r].out = "401"]
    /\ UNCHANGED authOthers

\* PollDeviceToken: the provider has granted an access token
PollDeviceToken(r) ==
    /\ authn.req[r].pc = "none"
    /\ authn' = [authn EXCEPT !.req[r].pc = "lock", !.req[r].token = "tg",
                            !.req[r].idp = 200]
    /\ UNCHANGED authOthers

\* h.tokenCacheMu.Lock()
AuthLock(r) ==
    /\ authn.req[r].pc = "lock"
    /\ authn.writer = {} /\ authn.readers = {}
    /\ authn' = [authn EXCEPT !.writer = {r}, !.req[r].pc = "store"]
    /\ UNCHANGED authOthers

\* h.tokenCache[token] = &tokenCacheEntry{expiresAt: time.Now().Add(24 * time.Hour)}
AuthStore(r) ==
    /\ authn.req[r].pc = "store"
    /\ LET t == authn.req[r].token
       IN authn' = [authn EXCEPT
                     !.cache = [k \in DOMAIN @ \cup {t} |->
                                   IF k = t THEN authn.now + CacheTTL ELSE @[k]],
                     !.req[r].pc = "unlock",
                     !.raced = @ \/ authn.writer # {r} \/ authn.readers # {}]
    /\ UNCHANGED authOthers

\* h.tokenCacheMu.Unlock(); ValidateToken returns the user and AuthMiddleware
\* calls next, PollDeviceToken answers 200
AuthUnlock(r) ==
    /\ authn.req[r].pc = "unlock"
    /\ authn' = [authn EXCEPT !.writer = @ \ {r}, !.req[r].pc = "done",
                            !.req[r].out = IF r = Poller THEN "200" ELSE "next"]
    /\ UNCHANGED authOthers

\* time passes on the control plane
AuthTick ==
    /\ authn.now < MaxNow
    /\ authn' = [authn EXCEPT !.now = @ + 1]
    /\ UNCHANGED authOthers

NextAuth ==
    \/ \E r \in AuthReqs, h \in BearerHeaders : AuthArrive(r, h)
    \/ \E r \in AuthReqs : AuthRLock(r)
    \/ \E r \in AuthReqs : AuthLookup(r)
    \/ \E r \in AuthReqs : AuthRUnlock(r)
    \/ \E r \in AuthReqs, code \in IdpAnswers : AuthIdp(r, code)
    \/ PollDeviceToken(Poller)
    \/ \E r \in AuthReqs \cup {Poller} : AuthLock(r)
    \/ \E r \in AuthReqs \cup {Poller} : AuthStore(r)
    \/ \E r \in AuthReqs \cup {Poller} : AuthUnlock(r)
    \/ AuthTick

-----------------------------------------------------------------------------
(* Signal frames: handleControl, handleSignal, PTY.Signal *)

MaxSignals == 3    \* signal frames a client sends

\* the names a client can put in a signal frame
SignalNames == {"SIGINT", "SIGTERM", "SIGKILL", "SIGHUP", "SIGQUIT", "sigint", ""}

\* the child started on the pty, and a process it has started in its group
Procs == {"child", "job"}

\* handleSignal: the syscall.Signal of a name, 0 for a name it does not know
SignalOf(name) ==
    CASE name = "SIGINT" -> 2
      [] name = "SIGTERM" -> 15
      [] name = "SIGKILL" -> 9
      [] name = "SIGHUP" -> 1
      [] OTHER -> 0

\* os.Process.Signal, kill(pid, sig): the process itself is the target
ProcessSignal(pid) == {pid}

NoSignals == [frames |-> <<>>, got |-> [p \in Procs |-> <<>>], up |-> TRUE, logged |-> 0]

\* the child has been sent no signal that ends it at once
Alive(g) == \A i \in 1..Len(g.got["child"]) : g.got["child"][i] # 9

\* relayWSToPTY reads a signal frame: handleControl, handleSignal,
\* PTY.Signal; an error of Process.Signal is logged and the loop goes on
SignalFrame(name) ==
    /\ Len(sigs.frames) < MaxSignals
    /\ LET sig == SignalOf(name)
           to == IF sig = 0 THEN {}
                 ELSE IF Alive(sigs) THEN ProcessSignal("child")
                 ELSE {}                         \* os: process already finished
       IN sigs' = [sigs EXCEPT !.frames = Append(@, name),
                           !.got = [p \in Procs |-> IF p \in to THEN Append(@[p], sig)
                                                    ELSE @[p]],
                           !.logged = IF sig # 0 /\ ~Alive(sigs) THEN 1 ELSE @]
    /\ UNCHANGED sigsOthers

NextSignal == \E name \in SignalNames : SignalFrame(name)

\* no request at the proxy, no signal frame at the relay, no stream, an
\* empty token cache
InitEdge == fwd = NoFwd /\ sigs = NoSignals /\ sse = NoSse /\ authn = NoAuth

-----------------------------------------------------------------------------
(* Specifications *)

vars == <<execVars, relayVars, dbVars, apiVars, proxyVars, billVars, cliVars>>

NoApi == [op |-> "none", user |-> "", x |-> "", status |-> 0, target |-> "", calls |-> {}]

\* no control plane, proxy or webhook activity
InitCloud ==
    /\ sessions = {}
    /\ subs = [u \in Users |-> NoSub]
    /\ usage = EmptyBag
    /\ clock = 0
    /\ machines = {}
    /\ lastApi = NoApi
    /\ prov = NoProv
    /\ nCreate = 0
    /\ px = NoPx
    /\ lastPx = NoQuota
    /\ nReq = 0
    /\ hook = NoHook
    /\ hookResp = NoResp

\* no control frame in the codec, no client at a terminal
InitCli == ctl = NoCtl /\ term = NoTerm /\ InitLock /\ InitEdge

\* a new executor process, no connection yet
InitExecutor == InitExec /\ InitRelay /\ InitCloud /\ InitCli

\* a new executor process that holds a token
InitRelays == InitExecutor /\ connectToken = Tok

\* a proxy started on a store that holds two sessions
InitProxy ==
    /\ InitExec /\ connectToken = Tok
    /\ InitRelay
    /\ sessions = ProxySessions
    /\ subs = [u \in Users |-> IF u = "ua" THEN NoSub ELSE SubRow("pro", Null, Null, Null, Null)]
    /\ usage = EmptyBag
    /\ clock = 0
    /\ machines = {}
    /\ lastApi = NoApi
    /\ prov = NoProv
    /\ nCreate = 0
    /\ px = NoPx
    /\ lastPx = NoQuota
    /\ nReq = 0
    /\ hook = NoHook
    /\ hookResp = NoResp
    /\ InitCli

\* the executor's HTTP surface, no relay running
SpecExec == InitExecutor /\ [][NextExec]_vars

\* one upload and its extraction
SpecExtract == InitExecutor /\ [][NextExtract]_vars

\* relays on an executor that holds a token and has no workspace: what the
\* client types
SpecRelayIn == InitRelays /\ [][NextRelayIn]_vars

\* the same relays: what the child prints
SpecRelayOut == InitRelays /\ [][NextRelayOut]_vars

\* connects and reconnects
SpecReconnect == InitRelays /\ [][NextReconnect]_vars

\* one relay and its keepalive
SpecKeepalive == InitRelays /\ [][NextKeepalive]_vars

\* the goroutines of a relay take the steps they can take: the scheduler
\* runs every goroutine that is not blocked.  The child and the client are
\* under no such obligation
RelayFairness ==
    \A c \in Conns :
        /\ WF_vars(RunReady(c)) /\ WF_vars(RunExit(c)) /\ WF_vars(RunErr(c))
        /\ WF_vars(RunReturn(c))
        /\ WF_vars(P2WLoop(c)) /\ WF_vars(P2WCancel(c)) /\ WF_vars(P2WRead(c))
        /\ WF_vars(P2WSend(c)) /\ WF_vars(P2WEof(c))
        /\ WF_vars(W2PStop(c))

\* the same relays, every goroutine scheduled
SpecRelayLive == InitRelays /\ [][NextRelayOut]_vars /\ RelayFairness

\* a control plane started on a store in which user ua has no subscription
\* row and may have used up the month's free tokens
InitApi ==
    /\ InitExec /\ connectToken = Tok
    /\ InitRelay
    /\ sessions = {}
    /\ subs = [u \in Users |-> IF u = "ua" THEN FreeSub ELSE SubRow("pro", Null, Null, Null, Null)]
    /\ usage = SetToBag({UsageRow("ua", "s0", FreeTierMonthlyTokens, 1, 0, 0)})
    /\ clock = 0
    /\ machines = {}
    /\ lastApi = NoApi
    /\ prov = NoProv
    /\ nCreate = 0
    /\ px = NoPx
    /\ lastPx = NoQuota
    /\ nReq = 0
    /\ hook = NoHook
    /\ hookResp = NoResp
    /\ InitCli

\* the control plane
SpecApi == InitApi /\ [][NextApi]_vars

\* sessions created and stopped over time
SpecStop == InitApi /\ [][NextStop]_vars

\* a control plane whose user ua has started a checkout: the subscription row
\* carries the customer id
InitBilling ==
    /\ InitExec /\ connectToken = Tok
    /\ InitRelay
    /\ sessions = {}
    /\ subs = [u \in Users |-> IF u = "ua"
                               THEN SubRow("free", Some("cus_a"), Null, Null, Null)
                               ELSE NoSub]
    /\ usage = SetToBag({UsageRow("ua", "s0", 1, 1, 0, 0)})
    /\ clock = 0
    /\ machines = {}
    /\ lastApi = NoApi
    /\ prov = NoProv
    /\ nCreate = 0
    /\ px = NoPx
    /\ lastPx = NoQuota
    /\ nReq = 0
    /\ hook = NoHook
    /\ hookResp = NoResp
    /\ InitCli

\* the payments webhook
SpecBilling == InitBilling /\ [][NextBilling]_vars

\* the metering proxy
SpecProxy == InitProxy /\ [][NextProxy]_vars

\* the quota gate of the metering proxy
SpecQuota == InitProxy /\ [][NextQuota]_vars

\* one control frame, built by a constructor or sent raw by a client
InitCodec ==
    /\ InitExec /\ connectToken = Tok
    /\ InitRelay /\ InitCloud
    /\ ctl \in {NewCtl(m) : m \in Messages} \cup {RawCtl(w) : w \in RawFrames}
    /\ term = NoTerm
    /\ InitLock /\ InitEdge

\* the control-frame codec
SpecCodec == InitCodec /\ [][NextCodec]_vars

\* a client that has dialed the executor from a terminal
InitClient ==
    /\ InitExec /\ connectToken = Tok
    /\ InitRelay /\ InitCloud
    /\ ctl = NoCtl
    /\ term \in {NewTerm(t) : t \in TtyStates}
    /\ InitLock /\ InitEdge

\* the senders of one relay
SpecWriters == InitExecutor /\ [][NextWriters]_vars

\* the client's connect
SpecClient == InitClient /\ [][NextClient]_vars

\* two requests behind the middleware and a device-token poll
SpecAuth == InitRelays /\ [][NextAuth]_vars

\* one streamed body, read in every way
SpecSse == InitRelays /\ [][NextSse]_vars

\* the signal frames of one connection
SpecSignal == InitRelays /\ [][NextSignal]_vars

\* the requests the proxy forwards
SpecForward == InitRelays /\ [][NextForward]_vars

-----------------------------------------------------------------------------
(* Claims on the executor server *)

\* C1 as stated: for every configured token, a request to /upload or /connect
\* whose Authorization header is not exactly 'Bearer <that token>' is answered
\* 401 by the handler's first step, which accepts no websocket, creates no pty
\* and lets no upload go on to store or extract anything.
C1_AsStated ==
    (lastReq.ep # "none" /\ lastReq.cls # "exact")
        => (lastReq.resp = 401 /\ ~lastReq.accepted /\ ~lastReq.created)

\* C1 amended: when the configured token is not empty, a request whose header
\* is not '<scheme> <token>' with the scheme spelled bearer in any letter case
\* is rejected by the handler's first step, with 401, or with 405 for an
\* /upload whose method is not POST; no websocket is accepted, no pty is
\* created, and the upload does not go on to store or extract anything.
C1_Confinement ==
    (connectToken # <<>> /\ lastReq.ep # "none" /\ lastReq.cls = "other")
        => /\ ~lastReq.accepted
           /\ ~lastReq.created
           /\ \/ lastReq.resp = 401
              \/ lastReq.ep = "upload" /\ ~lastReq.post /\ lastReq.resp = 405

\* a connect with a wrong header is refused on an executor that holds a token
\* and has a workspace and a running pty
C1_Witness ==
    /\ connectToken # <<>>
    /\ workspaceReady
    /\ sPty.started
    /\ lastReq.ep = "connect"
    /\ lastReq.cls = "other"
    /\ lastReq.resp = 401

\* C6: whatever the archive's entry names, every path extraction creates or
\* writes resolves inside the workspace root, and a request whose archive
\* presented an entry naming a place outside the root has been aborted with
\* an error at that entry.
C6_ZipSlipSafe ==
    /\ \A p \in fs : Inside(p)
    /\ \A r \in BagToSet(up) : r.slip => (r.pc = "done" /\ r.resp = 500)

\* an archive whose first entry was extracted under the root and whose next
\* entry names a place outside it
C6_Witness ==
    /\ \E p \in fs : Inside(p) /\ Len(p) > Len(Root)
    /\ \E r \in BagToSet(up) : r.slip /\ r.pc = "done"

\* whether the header authenticates per the amended C1
Authenticates(req) == connectToken = <<>> \/ req.cls \in {"exact", "ci"}

\* C8: once workspace-ready is set, every authenticated POST /upload that
\* arrives is answered 409 by its first step and goes on to write nothing.
C8_SecondUploadConflict ==
    [][ ( /\ workspaceReady
          /\ BagCardinality(up') > BagCardinality(up)
          /\ lastReq'.post
          /\ Authenticates(lastReq') )
        => ( /\ lastReq'.resp = 409
             /\ up' = up (+) SetToBag({Upload("done", 0, 409, FALSE)})
             /\ fs' = fs
             /\ workspaceReady' )
      ]_vars

\* a second upload was refused after the first was extracted and marked
C8_Witness ==
    /\ workspaceReady
    /\ lastReq.ep = "upload"
    /\ lastReq.post
    /\ lastReq.resp = 409
    /\ \E r \in BagToSet(up) : r.resp = 200

\* the requests that have gone past the already-uploaded check and have
\* extracted, are extracting or are about to mark the workspace ready
Extractors == {r \in BagToSet(up) : r.pc \in {"extract", "mark"} \/ r.resp = 200}

\* C23 as stated: in every interleaving of concurrent authenticated uploads at
\* most one extracts its archive into the workspace root and at most one is
\* answered 200.
C23_AsStated ==
    /\ \A r \in BagToSet(up) : r.resp = 200 => CopiesIn(r, up) <= 1
    /\ \A r \in Extractors : CopiesIn(r, up) <= 1
    /\ \A r, q \in Extractors : r = q

\* C32: the working directory of the child is set in the step that creates
\* the pty, to the workspace root if workspace-ready holds in the state the
\* step starts from and to the filesystem root otherwise, and no later step,
\* an upload that completes among them, changes it.
C32_DecidedOnce ==
    [][/\ sPty.started => sPty' = sPty
       /\ (~sPty.started /\ sPty'.started) =>
             /\ lastReq'.ep = "connect" /\ lastReq'.accepted
             /\ sPty'.workDir = (IF workspaceReady THEN Root ELSE FsRoot)]_vars

\* an upload has completed after the pty was created at the filesystem root;
\* a later connect has been accepted
C32_Witness ==
    /\ sPty.started /\ sPty.workDir = FsRoot /\ workspaceReady
    /\ lastReq.ep = "connect" /\ lastReq.accepted /\ ~lastReq.created

\* C36 as stated: workspace-ready is true only once an upload has been
\* received in full and extracted with no error and has answered 200; an
\* upload whose extraction met an error is never marked and answers with an
\* error status.
C36_AsStated ==
    /\ workspaceReady =>
          \E r \in BagToSet(up) : r.pc = "done" /\ r.resp = 200 /\ ~r.lost
    /\ \A r \in BagToSet(up) :
          r.lost => /\ r.pc # "mark"
                    /\ r.pc = "done" => r.resp >= 400

-----------------------------------------------------------------------------
(* Claims on the relay *)

\* the bytes connection c has had written to the pty, in order
WrittenBy(c) ==
    LET own == SelectSeq(ptyIn, LAMBDA e : e[1] = c)
    IN [k \in 1..Len(own) |-> own[k][2]]

RECURSIVE BinaryBytes(_)
\* the bytes of the binary frames of a queue, in order
BinaryBytes(q) ==
    IF q = <<>> THEN <<>>
    ELSE (IF Head(q).kind = "bin" THEN Head(q).data ELSE <<>>) \o BinaryBytes(Tail(q))

\* C2: on each connection, the bytes the executor has written to the pty are
\* a prefix of the bytes the client read from stdin and sent as binary
\* frames, and together with the binary frames still in flight they are
\* exactly those bytes in order, as long as no write to the pty has failed;
\* nothing else (no control frame) is written to the pty.
C2_ByteTransparency ==
    /\ \A i \in 1..Len(ptyIn) : ptyIn[i][1] \in Conns
    /\ \A c \in Conns :
        LET written == WrittenBy(c)
            sent == Bytes(0, cl[c].nSent)
        IN /\ Len(written) <= Len(sent)
           /\ written = SubSeq(sent, 1, Len(written))
           /\ w2p[c] # "stop" => written \o BinaryBytes(c2s[c]) = sent

\* a client has typed two bytes and resized its window; the relay has taken
\* every frame and the connection is still open
C2_Witness ==
    \E c \in Conns :
        /\ Open(c)
        /\ Len(WrittenBy(c)) >= 2
        /\ cl[c].ctl >= 1
        /\ winsize = ResizeJSON
        /\ c2s[c] = <<>>

\* C3 as stated: a client that has received the exit frame has had written to
\* its stdout, exactly once and in order, every byte the pty output since its
\* relay started, and no binary frame follows an exit frame on a connection.
C3_AsStated ==
    \A c \in Conns :
        /\ cl[c].gotExit =>
              /\ \A i \in (outAt[c] + 1)..child.nOut :
                    Cardinality({k \in 1..Len(cl[c].stdout) : cl[c].stdout[k] = i}) = 1
              /\ \A j, k \in 1..Len(cl[c].stdout) :
                    j < k => cl[c].stdout[j] < cl[c].stdout[k]
              /\ \A k \in 1..Len(s2c[c]) : s2c[c][k].kind # "bin"
        /\ \A j, k \in 1..Len(s2c[c]) :
              (j < k /\ s2c[c][j].msg = "exit") => s2c[c][k].kind # "bin"


-----------------------------------------------------------------------------
(* Claims on the metering proxy *)

RECURSIVE CountRows(_, _)
CountRows(tbl, rows) ==
    IF rows = {} THEN 0
    ELSE LET r == CHOOSE x \in rows : TRUE
         IN CopiesIn(r, tbl) + CountRows(tbl, rows \ {r})

\* the usage rows request n inserted
NRows(n) == CountRows(usage, {r \in BagToSet(usage) : r.req = n})

\* what the response of the request carried: the events of a stream, the
\* usage object of a unary body
Content(p) == IF p.kind = "sse" THEN p.seen ELSE p.body

\* the rows the request's path label identifies
LabelledRows(p) == GetSessionByLabelAnyUser(p.label)

\* C4 as stated: every request forwarded successfully whose response carries a
\* message_start or message_delta event, or a parseable usage object, leaves
\* exactly one usage row, bound to the user and session of its path label.
C4_AsStated ==
    (px.pc = "done" /\ px.status = 200 /\ Content(px).ok)
        => /\ NRows(px.n) = 1
           /\ \A r \in BagToSet(usage) :
                 r.req = px.n => \E s \in LabelledRows(px) :
                                    r.user = s.user /\ r.session = s.id

\* C4: no request ever has more than one usage row; a finished request has
\* one exactly when upstream answered 200 on a messages path, the response
\* carried a usage count above zero (input or output) and the insert
\* succeeded, and that row holds the last counts carried and is bound to the
\* user and session of the path label; otherwise it has none.
C4_OneUsageRow ==
    /\ \A n \in 1..nReq : NRows(n) <= 1
    /\ px.pc = "done" =>
          LET c == Content(px)
              recorded == /\ px.ustatus = 200 /\ px.msgs
                          /\ c.ok /\ (c.inp > 0 \/ c.out > 0)
                          /\ ~px.dbFail
          IN /\ NRows(px.n) = (IF recorded THEN 1 ELSE 0)
             /\ recorded =>
                   \E s \in LabelledRows(px), t \in 0..MaxClock :
                      CopiesIn(UsageRow(s.user, s.id, c.inp, c.out, t, px.n), usage) = 1

\* a stream of two events or more was read to its end and closed, and left
\* its row
C4_Witness ==
    /\ px.pc = "done" /\ px.kind = "sse" /\ px.eof
    /\ px.nEv >= 2 /\ px.seen.inp > 0 /\ px.seen.out > 0
    /\ NRows(px.n) = 1

\* C9 as stated: the quota predicate allows iff the plan is pro or the
\* month's total of input and output tokens is at most the ceiling.
C9_AsStated ==
    lastPx.checked =>
        (lastPx.allowed <=> (lastPx.plan = "pro" \/ lastPx.total <= FreeTierMonthlyTokens))

\* the path has the form /s/{label}/...: the label it names, Null otherwise
LabelNamed(path) ==
    IF /\ Len(path) >= 5
       /\ path[1] = "/" /\ path[2] = "s" /\ path[3] = "/"
       /\ path[4] # "/" /\ path[5] = "/"
    THEN Some(path[4])
    ELSE IF Len(path) >= 4 /\ SubSeq(path, 1, 4) = <<"/", "s", "/", "/">>
    THEN Some("")
    ELSE Null

\* the request being served was handed to the reverse proxy
Forwarded == px.pc \in {"upstream", "stream", "eof"} \/ px.ustatus # 0

\* C25: a request is sent upstream only after its path matched /s/{label}/...,
\* then the label resolved to a session row, then the quota predicate allowed
\* the owner of that row; a malformed path is answered 400 with no session
\* lookup, an unknown label 401 with no quota check, a denied quota 402, and
\* in none of these cases is the request sent upstream or a usage row written
\* for it.
C25_GateOrder ==
    px.pc # "idle" =>
        LET named == LabelNamed(px.path)
            rows == IF named = Null THEN {} ELSE {r \in sessions : r.label = named[1]}
        IN /\ Forwarded =>
                /\ px.did = <<"path", "lookup", "quota">>
                /\ px.sess \in rows
                /\ lastPx.checked /\ lastPx.user = px.sess.user /\ lastPx.allowed
           /\ named = Null => px.status = 400 /\ px.did = <<"path">> /\ ~Forwarded
           /\ (named # Null /\ rows = {}) =>
                px.status = 401 /\ px.did = <<"path", "lookup">> /\ ~Forwarded
           /\ (px.did = <<"path", "lookup", "quota">> /\ ~Forwarded) =>
                \/ px.status = 402 /\ lastPx.checked /\ ~lastPx.allowed
                \/ px.status = 500
           /\ ~Forwarded => \A r \in BagToSet(usage) : r.req # px.n

\* a request on a well-formed path of a session whose owner has used up the
\* month's free tokens was answered 402 by the proxy itself
C25_Witness ==
    /\ px.pc = "done"
    /\ px.status = 402
    /\ px.ustatus = 0
    /\ px.path = MessagesPath("l1")
    /\ px.did = <<"path", "lookup", "quota">>
    /\ lastPx.checked /\ ~lastPx.allowed

\* a unary 200 response on a messages path has been served
UnaryServed == px.pc = "done" /\ px.kind = "json" /\ px.ustatus = 200 /\ px.msgs

FailedRecord == px.dbFail /\ px.pc \in {"eof", "done"}

\* C30: a failed insert of the usage row leaves the response as upstream gave
\* it: status 200, the content type of the upstream response, the bytes of
\* the upstream body (and their length for a unary response); the insert was
\* attempted once and the request has no row.
C30_FailureSwallowed ==
    FailedRecord =>
        /\ px.status = px.ustatus /\ px.status = 200
        /\ px.served = px.up
        /\ px.kind = "json" => px.clen = Len(px.up)
        /\ px.tries = 1
        /\ NRows(px.n) = 0

\* the insert failed at the end of a stream of two events that was then
\* closed
C30_Witness ==
    /\ FailedRecord /\ px.pc = "done" /\ px.kind = "sse" /\ px.eof /\ px.nEv >= 2
    /\ px.served = px.up /\ px.n = 2 /\ NRows(1) = 0

-----------------------------------------------------------------------------
(* Claims on the control plane *)

\* the rows the requester owns under the label x
OwnLabelled(user, x) == {o \in sessions : o.user = user /\ o.label = x}

\* C5 as stated: a get or stop by B with the id or the label of a row of A
\* answers 404, makes no provisioner call and leaves the row unchanged.
C5_AsStated ==
    [][lastApi'.op \in {"get", "stop"} =>
          \A r \in Foreign(lastApi'.user, lastApi'.x) :
             /\ lastApi'.status = 404
             /\ lastApi'.calls = {}
             /\ r \in sessions']_vars

\* C5: a get or stop by B with the id or the label of a row of A leaves the
\* row unchanged, makes no provisioner call on its machine and never acts on
\* it; the answer is 404 unless B owns a row with that label, and then the
\* request is served on B's own row.
C5_Ownership ==
    [][lastApi'.op \in {"get", "stop"} =>
          \A r \in Foreign(lastApi'.user, lastApi'.x) :
             /\ r \in sessions'
             /\ \A c \in lastApi'.calls : c[2] # r.machine
             /\ lastApi'.target # r.id
             /\ (lastApi'.status = 404) <=> (OwnLabelled(lastApi'.user, lastApi'.x) = {})
             /\ lastApi'.status # 404 =>
                   \E o \in OwnLabelled(lastApi'.user, lastApi'.x) :
                      lastApi'.target = o.id]_vars

\* a stop that names a running row of another user by its id was answered 404
C5_Witness ==
    /\ lastApi.op = "stop" /\ lastApi.status = 404
    /\ \E r \in sessions :
          r.user # lastApi.user /\ r.id = lastApi.x /\ r.status = "running"

\* C10 as stated: a create by a free-plan user over the monthly ceiling is
\* answered 402, calls the provisioner's create never and inserts no row.
C10_AsStated ==
    (/\ lastApi.op = "create"
     /\ PlanOf(lastApi.user) = "free"
     /\ TotalOf(lastApi.user) > FreeTierMonthlyTokens)
        => /\ lastApi.status = 402
           /\ \A c \in lastApi.calls : c[1] # "create"
           /\ lastApi.target = ""

\* C22 as stated: whenever a stop is answered 200, with delete=true the
\* instance is destroyed and the session row no longer exists, and without
\* delete the row has status stopped and an end timestamp; when the
\* provisioner's stop call fails the answer is an error and the rows are
\* unchanged.
C22_AsStated ==
    [][/\ (lastApi'.op = "stop" /\ lastApi'.status = 500) => sessions' = sessions
       /\ (lastApi'.op = "stop" /\ lastApi'.status = 200)
          => IF \E c \in lastApi'.calls : c[1] = "delete"
             THEN /\ \A c \in lastApi'.calls : \A m \in machines' : m.id # c[2]
                  /\ \A r \in sessions' : r.id # lastApi'.target
             ELSE \E r \in sessions' :
                     /\ r.id = lastApi'.target
                     /\ r.status = "stopped"
                     /\ r.ended # Null]_vars

\* the machine the latest create-session request was given, if any
Created(api) == {c[2] : c \in {c \in api.calls : c[1] = "create"}}

\* C33: a create-session request whose machine was created but did not reach
\* started issues a delete for that machine, answers with an error and
\* inserts no row; a request that inserts a row inserts it for its own
\* machine, and that machine has started.
C33_RollBack ==
    [][nCreate' # nCreate =>
          /\ \A m \in Created(lastApi') :
                Machine(m, "started") \notin machines'
                    => /\ <<"delete", m>> \in lastApi'.calls
                       /\ lastApi'.status >= 400
                       /\ sessions' = sessions
          /\ \A r \in sessions' \ sessions :
                /\ r.machine \in Created(lastApi')
                /\ Machine(r.machine, "started") \in machines']_vars

\* a machine was created, did not start and was deleted; no row was inserted
C33_Witness ==
    /\ lastApi.op = "create" /\ lastApi.status = 500
    /\ \E m \in Created(lastApi) :
          /\ <<"delete", m>> \in lastApi.calls
          /\ \A x \in machines : x.id # m
          /\ \A r \in sessions : r.machine # m

\* C37 as stated: a create-session request that ends with an error after
\* its machine was created has issued a delete for that machine, and leaves
\* no started machine without a session row.
C37_AsStated ==
    [][(nCreate' # nCreate /\ lastApi'.status >= 400) =>
          \A m \in Created(lastApi') :
             /\ <<"delete", m>> \in lastApi'.calls
             /\ Machine(m, "started") \in machines' => \E r \in sessions' : r.machine = m]_vars

\* the values the environment gives the name
EnvOf(env, name) == {p[2] : p \in {q \in env : q[1] = name}}

\* the machine's token is the token answered and the token stored, and the
\* machine has the command string
TokenAndCmd(p) ==
    /\ \E t \in {ConnectTokens[i] : i \in 1..nCreate} :
          /\ EnvOf(p.env, "CONNECT_TOKEN") = {<<t>>}
          /\ p.resp \in {Null, Some(t)} /\ p.row \in {Null, Some(t)}
    /\ EnvOf(p.env, "CATTY_CMD") = {JoinCmd(p.cmd)}

\* C34 as stated: the machine a create-session request provisions is given
\* the token that is answered and stored, the command string, and a metering
\* base URL https://<proxy-host>/s/{label} with the label of the session.
C34_AsStated ==
    prov.made =>
        /\ TokenAndCmd(prov)
        /\ \E q \in prov.env : q[2] = MeteringURL(prov.label)

-----------------------------------------------------------------------------
(* Claims on the payments webhook *)

\* C7 as stated: an event handled twice leaves every subscription row with
\* the plan and the period start and end its first handling left, and the
\* usage rows as they were.
C7_AsStated ==
    hook.n >= 2 =>
        /\ \A u \in Users :
              /\ subs[u].plan = hook.subs[u].plan
              /\ subs[u].ps = hook.subs[u].ps
              /\ subs[u].pe = hook.subs[u].pe
        /\ usage = hook.usage

\* C21: a webhook request whose signature does not verify is answered 400
\* (503 when its body could not be read), leaves every subscription row as it
\* was, and the handler has looked at no event type; a request that changes
\* a subscription row is one whose signature verified.
C21_VerifyFirst ==
    [][/\ (hookResp'.ev # Null /\ ~hookResp'.verified)
          => /\ hookResp'.status \in {400, 503}
             /\ hookResp'.type = ""
             /\ subs' = subs
       /\ subs' # subs => hookResp'.verified /\ hookResp'.status = 200]_vars

\* a cancellation of ua's paid subscription arrived with a signature that
\* does not verify, was answered 400, and ua is still on the paid plan
C21_Witness ==
    /\ hookResp.ev # Null
    /\ hookResp.ev[1].type = "customer.subscription.deleted"
    /\ hookResp.ev[1].cust = "cus_a"
    /\ hookResp.status = 400
    /\ ~hookResp.verified
    /\ hookResp.type = ""
    /\ subs["ua"].plan = "pro"

-----------------------------------------------------------------------------
(* Claims on connects and reconnects *)

\* C11: on every connection the first frame the executor sends is the text
\* frame ready, it is sent once and never again, and no binary frame (and no
\* other frame) precedes it, on a first connect and on a reconnect; a relay
\* that runs has sent it.
C11_ReadyFirst ==
    \A c \in Conns :
        /\ wire[c].first \in {"", "ready"}
        /\ wire[c].ready <= 1
        /\ wire[c].first # "" => wire[c].ready = 1
        /\ run[c] \in {"select", "exit"} => wire[c].ready = 1
        /\ s2c[c] # <<>> =>
              /\ Head(s2c[c]) = TxtFrame("ready", <<>>)
              /\ \A i \in 2..Len(s2c[c]) : s2c[c][i] # TxtFrame("ready", <<>>)

\* the first connection was sent ready and pty output and has ended; the
\* reconnect was sent ready, then pty output
C11_Witness ==
    /\ run[1] = "done" /\ Len(s2c[1]) >= 2 /\ wire[1].ready = 1
    /\ run[2] = "select" /\ Len(s2c[2]) >= 2 /\ wire[2].ready = 1
    /\ \E i \in 2..Len(s2c[2]) : s2c[2][i].kind = "bin"

\* C12 as stated: a relay that ended while its client was still there ended
\* by the child's exit, and the exit frame was sent on its connection before
\* the connection was closed.
C12_AsStated ==
    \A c \in Conns :
        (run[c] = "done" /\ wire[c].ready = 1 /\ child.exited /\ ~cl[c].closed)
            => wire[c].exit

C24_AsStated ==
    [][\A c \in Conns :
          (/\ run[c] = "done"
           /\ \E d \in Conns : d > c /\ wire[d].ready > 0)
          => ~(p2w[c].pc = "read" /\ p2w'[c].pc = "send")]_vars

\* C27 as stated: after a connection's relay has ended, its pty reader and
\* its connection reader each eventually terminate; none stays blocked
\* forever in a pty read or a connection read.
C27_AsStated ==
    \A c \in Conns :
        (run[c] = "done") ~> (p2w[c].pc \in {"off", "stop"} /\ w2p[c] \in {"off", "stop"})

\* the ping frames among frames
PingsIn(frames) == Cardinality({i \in 1..Len(frames) : frames[i].kind = "txt" /\ frames[i].msg = "ping"})

\* the peer of c has answered no ping: every ping sent is still unread
NoPong(c) == PingsIn(s2c[c]) = wire[c].pings

\* C28 as stated: once two ping intervals have passed after a ping with no
\* pong from the peer, the relay has ended or is ending: it does not go on
\* waiting in its select.
C28_AsStated ==
    \A c \in Conns : (wire[c].pings >= 3 /\ NoPong(c)) => run[c] # "select"

-----------------------------------------------------------------------------
(* Claims on create-session and stop-session *)

\* the create request whose machine reached started and whose row was not
\* inserted
InsertFailed(a) ==
    /\ a.op = "create"
    /\ \E c \in a.calls : c[1] = "create"
    /\ \A c \in a.calls : c[1] # "delete"
    /\ a.target = ""

\* C14 as stated: when the insert of the session row fails after the instance
\* has started, POST /v1/sessions answers success.
C14_AsStated == InsertFailed(lastApi) => lastApi.status = 200

\* C17 as stated: create-session neither provisions nor persists a session
\* under the label of an existing session that is not stopped.
C17_AsStated ==
    [][(/\ lastApi'.op = "create"
        /\ \E r \in sessions : r.label = lastApi'.x /\ r.status # "stopped")
          => /\ \A c \in lastApi'.calls : c[1] # "create"
             /\ sessions' = sessions]_vars

\* C20 as stated: a row that has status stopped keeps its status and its end
\* timestamp through every later operation.
C20_AsStated ==
    [][\A r \in sessions : \A r2 \in sessions' :
          (r.status = "stopped" /\ r2.id = r.id)
             => (r2.status = r.status /\ r2.ended = r.ended)]_vars


-----------------------------------------------------------------------------
(* Claims on the usage of a streamed response *)

\* the usage rows of the request the proxy is serving or has just served
RowsOfRequest == {r \in BagToSet(usage) : r.req = px.n}

\* C19 as stated: a streamed response leaves at most one usage row, and the
\* row carries the input count of the last message_start and the output count
\* of the last message_delta observed.
C19_AsStated ==
    px.kind = "sse" =>
        /\ NRows(px.n) <= 1
        /\ \A r \in RowsOfRequest :
              /\ r.inp = px.seen.inp
              /\ px.lastDelta >= 0 => r.out = px.lastDelta

\* C19: a streamed response leaves at most one usage row, whether its reads
\* end in EOF, in Close or in both; the row carries the input count of the
\* last message_start (0 if there was none) and the output count of the last
\* message_delta whose output count is above zero (0 if there was none); a
\* Close after EOF writes nothing further.
C19_LastCounts ==
    px.kind = "sse" =>
        /\ NRows(px.n) <= 1
        /\ \A r \in RowsOfRequest :
              /\ r.inp = px.seen.inp
              /\ r.out = px.seen.out
              /\ r.inp > 0 \/ r.out > 0
        /\ px.pc = "done" /\ px.eof /\ ~px.dbFail /\ (px.seen.inp > 0 \/ px.seen.out > 0)
              => NRows(px.n) = 1

\* a stream whose last message_delta carried no output count after one that
\* did was read to EOF and closed, and left its one row
C19_Witness ==
    /\ px.pc = "done" /\ px.kind = "sse" /\ px.eof
    /\ px.lastDelta = 0 /\ px.seen.out > 0
    /\ NRows(px.n) = 1


-----------------------------------------------------------------------------
(* Claims on control frames *)

\* the allowed range of a window dimension and the nearest bound to a value
Clamp(v) == IF v < 1 THEN 1 ELSE IF v > 65535 THEN 65535 ELSE v

\* C15 as stated: every resize control frame the executor handles ends with a
\* window size applied to the pty, the frame is never rejected or dropped; a
\* cols or rows of 0 is applied as 1 and an out-of-range value as the nearest
\* allowed bound.
C15_AsStated ==
    (/\ ctl.pc = "handled"
     /\ ctl.wire[1].type = "resize"
     /\ {"cols", "rows"} \subseteq DOMAIN ctl.wire[1])
    => ctl.winsize = Some(<<Clamp(ctl.wire[1].cols), Clamp(ctl.wire[1].rows)>>)

\* strings json.Marshal writes without loss
ValidUTF8(s) == \A i \in 1..Len(s) : s[i] # "xFF"
ValidStrings(m) ==
    CASE m.type = "signal" -> ValidUTF8(m.name)
      [] m.type = "exit" -> m.signal = Null \/ ValidUTF8(m.signal[1])
      [] m.type = "error" -> ValidUTF8(m.message)
      [] OTHER -> TRUE

\* strings.ToValidUTF8(s, U+FFFD) when no two invalid bytes are adjacent
ToValidUTF8(s) == [i \in 1..Len(s) |-> IF s[i] = "xFF" THEN "uFFFD" ELSE s[i]]
Coerced(m) ==
    CASE m.type = "signal" -> [m EXCEPT !.name = ToValidUTF8(@)]
      [] m.type = "exit" -> [m EXCEPT !.signal = IF @ = Null THEN Null
                                                 ELSE Some(ToValidUTF8(@[1]))]
      [] m.type = "error" -> [m EXCEPT !.message = ToValidUTF8(@)]
      [] OTHER -> m

\* C16 as stated: for every control frame kind and every value of its fields,
\* the message built by the constructor, JSON-encoded and passed to
\* ParseMessage, comes back as a message of the same kind with equal fields.
C16_AsStated ==
    (ctl.pc = "parsed" /\ ctl.msg # Null)
    => ctl.parsed = Some(Parsed(ctl.msg[1]))

\* C16: for every control frame kind, the message built by the constructor,
\* JSON-encoded and passed to ParseMessage, comes back without error as a
\* message of the same kind whose fields are the original ones with every
\* byte that is not valid UTF-8 replaced by U+FFFD, so equal to the original
\* ones when its strings are valid UTF-8.
C16_RoundTrip ==
    (ctl.pc = "parsed" /\ ctl.msg # Null)
    => /\ ctl.parsed = Some(Parsed(Coerced(ctl.msg[1])))
       /\ ValidStrings(ctl.msg[1]) => ctl.parsed = Some(Parsed(ctl.msg[1]))

\* an exit message with a signal name that json.Marshal escapes has made the
\* round trip
C16_Witness ==
    /\ ctl.pc = "parsed"
    /\ ctl.msg = Some(NewExitMessage(137, Some(<<"<", "S">>)))
    /\ ctl.parsed = Some(Parsed(ctl.msg[1]))

-----------------------------------------------------------------------------
(* Claims on the client's terminal *)

\* C18 as stated: on every path by which the client relay ends after raw mode
\* was entered (exit frame, connection error or close, stdin read error, a
\* termination signal delivered to the process), the terminal is back in its
\* saved state when the process ends.
C18_AsStated ==
    (term.pc = "ended" /\ term.oldState # Null)
    => term.tty = term.oldState[1]

-----------------------------------------------------------------------------
(* Claims on the write side of a relay *)

\* the senders inside conn.Write
Writing == {s \in Senders : snd[s].pc = "write"}

\* the frames of sender s on the connection, in the order written
FramesBy(s) == SelectSeq(sock, LAMBDA f : f.by = s)

\* C26: at most one frame write is in progress on a connection at any time,
\* binary frames, control frames and pings alike, the writer being the holder
\* of the one mutex; and the frames of each sender are on the connection in
\* the order the sender issued them.
C26_OneWriter ==
    /\ Cardinality(Writing) <= 1
    /\ \A s \in Writing : mu = s
    /\ \A s \in Senders :
          /\ Len(FramesBy(s)) <= snd[s].n
          /\ \A i \in 1..Len(FramesBy(s)) : FramesBy(s)[i].k = i

\* a binary frame is being written while the ping loop and Run wait for the
\* mutex, with a frame of Run already on the connection
C26_Witness ==
    /\ snd["p2w"].pc = "write"
    /\ snd["ping"].pc = "lock"
    /\ snd["run"].pc = "lock"
    /\ Len(FramesBy("run")) = 1

-----------------------------------------------------------------------------
(* Claims on the request sent upstream *)

\* C31 as stated: a request sent upstream has the upstream host, the
\* proxy's provider key in x-api-key, no Authorization header, and the
\* method, the body and every other header of the incoming request.
C31_AsStated ==
    fwd.pc = "sent" =>
        /\ fwd.out.host = AnthropicHost
        /\ fwd.out.hdr["X-Api-Key"] = <<AnthropicKey>>
        /\ fwd.out.hdr["Authorization"] = <<>>
        /\ fwd.out.method = fwd.in.method
        /\ fwd.out.body = fwd.in.body
        /\ \A n \in HeaderNames \ {"X-Api-Key", "Authorization"} :
              fwd.out.hdr[n] = fwd.in.hdr[n]

-----------------------------------------------------------------------------
(* Claims on signal frames *)

\* the names the protocol gives a signal
ProtocolSignals == {"SIGINT", "SIGTERM", "SIGKILL", "SIGHUP"}

\* C35 as stated: a signal frame with one of the four names delivers that
\* signal, once, to every process of the child's process group; a frame with
\* another name delivers nothing; either way the relay goes on and the
\* connection stays open.
C35_AsStated ==
    [][(sigs'.frames # sigs.frames /\ Alive(sigs)) =>
          LET name == sigs'.frames[Len(sigs'.frames)]
          IN /\ sigs'.up
             /\ \A p \in Procs :
                   sigs'.got[p] = IF name \in ProtocolSignals
                                THEN Append(sigs.got[p], SignalOf(name))
                                ELSE sigs.got[p]]_vars

-----------------------------------------------------------------------------
(* Claims on connects after the child's exit *)

\* the relay of connection c has ended with its client still there
EndedWithClient(c) == run[c] = "done" /\ ~cl[c].closed

\* the frames of connection c are ready first and later the exit frame with
\* the child's exit code
ReadyThenExit(c) ==
    /\ wire[c].ready = 1 /\ wire[c].exit
    /\ Head(s2c[c]) = ReadyFrame
    /\ \E i \in 2..Len(s2c[c]) : s2c[c][i] = TxtFrame("exit", <<child.code>>)

\* C39 as stated: once the child has exited, no other child is started, and
\* a connect made from then on is sent ready and then the exit frame with
\* the child's exit code before its relay ends and the connection is closed.
C39_AsStated ==
    \A c \in Conns :
        wire[c].late => starts = 1 /\ (EndedWithClient(c) => ReadyThenExit(c))

-----------------------------------------------------------------------------
(* Claims on the bytes of a streamed response *)

\* what the reader counts when the whole body comes in one Read
InOneRead(stream) == ParseSSEEvents([NoSse EXCEPT !.buffer = stream])

\* C38: however the body is split across Read calls, the counts recorded at
\* its end are those of the body read in one piece, and at every moment the
\* bytes handed to the caller are the bytes read from upstream so far.
C38_SplitIndependent ==
    /\ sse.served = SubSeq(sse.up, 1, sse.pos)
    /\ sse.pc = "eof" =>
          /\ sse.rec = Recorded(InOneRead(sse.up))
          /\ sse.served = sse.up

\* a body with a "\r\n\r\n" separator and a [DONE] sentinel was read to
\* its end in two Reads or more and left counts above zero
C38_Witness ==
    /\ sse.pc = "eof" /\ sse.reads >= 2 /\ sse.rec # Null
    /\ Index(sse.up, <<"CR", "LF", "CR", "LF">>) # 0
    /\ Index(sse.up, <<"[DONE]">>) # 0
    /\ sse.buffer = <<>>

-----------------------------------------------------------------------------
(* Claims on the token cache *)

\* the request was let through on an entry it found that was not 24 h old
ByCache(q) ==
    q.hit /\ q.exp # 0 /\ q.at < q.exp /\ q.exp <= q.at + CacheTTL /\ q.idp = 0

\* the request was let through on the provider's answer to its own call
ByProvider(q) == ~q.hit /\ q.idp = 200

\* the cache is written by r, whose token the provider has just validated,
\* under the write lock
StoredBy(r) ==
    /\ authn.req[r].idp = 200 /\ authn.writer = {r} /\ authn.readers = {}
    /\ authn'.cache = [k \in DOMAIN authn.cache \cup {authn.req[r].token} |->
                         IF k = authn.req[r].token THEN authn.now + CacheTTL
                         ELSE authn.cache[k]]

\* C40: a request is handed to the next handler only on a cache entry of its
\* token less than 24 h old or on the identity provider's validation in
\* that same request; the cache map changes only by storing a token the
\* provider has validated, so a failed validation leaves it as it was; an
\* expired entry lets nothing through; no access to the map is made without
\* the lock.
C40_CacheGate ==
    /\ [](/\ ~authn.raced
          /\ \A r \in AuthReqs :
                /\ authn.req[r].out = "next" => ByCache(authn.req[r]) \/ ByProvider(authn.req[r])
                /\ authn.req[r].hit => authn.req[r].at < authn.req[r].exp)
    /\ [][authn'.cache # authn.cache => \E r \in AuthReqs \cup {Poller} : StoredBy(r)]_vars

\* one request was let through on a cache entry; the other found the entry
\* of its token expired, failed at the provider and got 401, and the entry
\* is as it was
C40_Witness ==
    \E r, q \in AuthReqs :
        /\ authn.req[r].out = "next" /\ authn.req[r].hit
        /\ authn.req[q].out = "401" /\ authn.req[q].exp # 0
        /\ authn.req[q].at >= authn.req[q].exp
        /\ authn.req[q].idp = 401
        /\ authn.cache[authn.req[q].token] = authn.req[q].exp

=============================================================================
